---- MODULE Spec2Model ----
(***************************************************************************)
(* Session manager and streaming relay of gemini-srv                       *)
(* (src/session/session.go, the revision with ContextID/TaskID, lines      *)
(* 251-613), together with the statistics accumulator                      *)
(* (src/internal/stats/stats.go) and the prompt handlers of src/main.go.   *)
(*                                                                         *)
(* Go strings are modelled as sequences of one-character strings, so that  *)
(* len() is Len and + is \o.  A *Session is an index into objs.            *)
(***************************************************************************)
EXTENDS Integers, Sequences, FiniteSets, TLC

\* ------------------------------------------------------------------ bounds
\* Session instances ever allocated
MaxObj == 2
\* events one stream yields before it ends
MaxEvents == 2

\* the requests of a run, in the order they arrive
Turns == {1, 2}
Ids   == {"a", "b"}
Modes == {"sync", "task", "stream"}

\* ------------------------------------------------------------ Go strings
IsSpace(c) == c \in {" ", "\t", "\n"}

RECURSIVE FieldsAcc(_, _, _)
FieldsAcc(s, cur, acc) ==
    IF s = <<>>
    THEN IF cur = <<>> THEN acc ELSE Append(acc, cur)
    ELSE IF IsSpace(Head(s))
         THEN FieldsAcc(Tail(s), <<>>, IF cur = <<>> THEN acc ELSE Append(acc, cur))
         ELSE FieldsAcc(Tail(s), Append(cur, Head(s)), acc)

\* strings.Fields
Fields(s) == FieldsAcc(s, <<>>, <<>>)

RECURSIVE Join(_, _)
\* strings.Join
Join(words, sep) ==
    IF words = <<>> THEN <<>>
    ELSE IF Len(words) = 1 THEN words[1]
    ELSE words[1] \o sep \o Join(Tail(words), sep)

MaxNameWords == 5
MaxNameLen   == 50

generateNameFromPrompt(prompt) ==
    LET words == Fields(prompt)
        w5    == IF Len(words) > MaxNameWords THEN SubSeq(words, 1, MaxNameWords) ELSE words
        name  == Join(w5, <<" ">>)
    IN  IF Len(name) > MaxNameLen THEN SubSeq(name, 1, MaxNameLen) ELSE name

NewConversationName ==
    <<"N","e","w"," ","C","o","n","v","e","r","s","a","t","i","o","n">>

UserPrefix   == <<"U","s","e","r",":"," ">>
GeminiPrefix == <<"G","e","m","i","n","i",":"," ">>
TaskOpen     == <<"(","t","a","s","k"," ">>
TaskClose    == <<")">>

Prompts == { <<"h","i">>, <<"a"," "," ","b">> }
\* "#" stands for a byte that is not valid UTF-8 (0xFF).  The prompt of a
\* streaming turn is the payload of a websocket message (main.go:197-202),
\* any bytes; the prompt of the other modes is a decoded JSON string.
BadByte == "#"
BytePrompts == { <<"h", BadByte>> }
PromptsOf(mode) ==
    CASE mode = "stream" -> { <<"h","i">> } \cup BytePrompts
      [] mode = "task"   -> { <<"h","i">> }
      [] OTHER           -> Prompts
WorkDirs == { <<"/">> }

\* --------------------------------------------------------- protocol data
\* A protocol.Part by its dynamic Go type and its text.
Part(ty, s) == [ty |-> ty, s |-> s]
PtrText(s)  == Part("*TextPart", s)
ValText(s)  == Part("TextPart", s)
DataPart    == Part("*DataPart", <<"d">>)

NilPtr == "nil"
IdPairs == { <<"c1", "t1">>, <<"c2", "t2">> }

Ev(k, c, t, has, mk, ps, last) ==
    [kind |-> k, ctx |-> c, task |-> t, hasMsg |-> has, mkind |-> mk,
     parts |-> ps, last |-> last]

NoEvent == Ev("none", "", "", FALSE, "", <<>>, FALSE)

KindMessage            == "message"
KindTask               == "task"
KindTaskStatusUpdate   == "status-update"
KindTaskArtifactUpdate == "artifact-update"

X == <<PtrText(<<"x">>)>>
Y == <<DataPart, PtrText(<<"y">>)>>

\* protocol.Message: ContextID and TaskID are *string and may be nil.
MessageEvents ==
    { Ev(KindMessage, "c1", "t1", FALSE, "", X, FALSE),
      Ev(KindMessage, "c2", "t2", FALSE, "", Y, FALSE),
      Ev(KindMessage, NilPtr, "t1", FALSE, "", X, FALSE),
      Ev(KindMessage, "c1", NilPtr, FALSE, "", X, FALSE) }
\* protocol.Task
TaskEvents ==
    { Ev(KindTask, "c2", "t2", FALSE, "", <<>>, FALSE) }
\* protocol.TaskArtifactUpdateEvent, LastChunk set or not
ArtifactEvents ==
    { Ev(KindTaskArtifactUpdate, "c1", "t1", FALSE, "", Y, TRUE),
      Ev(KindTaskArtifactUpdate, "c2", "t2", FALSE, "", X, FALSE) }
\* protocol.TaskStatusUpdateEvent: Status.Message nil, or a message whose
\* Kind field is "message", or a message whose Kind field is something else.
StatusEvents ==
    { Ev(KindTaskStatusUpdate, "c1", "t1", FALSE, "", <<>>, FALSE),
      Ev(KindTaskStatusUpdate, "c2", "t2", TRUE, KindMessage, <<>>, FALSE),
      Ev(KindTaskStatusUpdate, "c1", "t1", TRUE, KindMessage, Y, FALSE),
      Ev(KindTaskStatusUpdate, "c2", "t2", TRUE, "", X, FALSE) }
\* any other GetKind()
UnknownEvents ==
    { Ev("other", "c2", "t2", FALSE, "", X, FALSE) }

Events == MessageEvents \cup TaskEvents \cup ArtifactEvents \cup StatusEvents
          \cup UnknownEvents

RECURSIVE extractTextFromParts(_)
extractTextFromParts(ps) ==
    IF ps = <<>> THEN <<>>
    ELSE (IF Head(ps).ty = "*TextPart" THEN Head(ps).s ELSE <<>>)
         \o extractTextFromParts(Tail(ps))

extractTextFromMessage(e) == extractTextFromParts(e.parts)


\* Reply of client.A2AClient.SendMessage: (response, err); Result is a
\* *protocol.Message or a *protocol.Task.
Reply(err, res, ps, id) == [err |-> err, res |-> res, parts |-> ps, id |-> id]
SyncParts == { <<>>, <<ValText(<<"x">>)>>, <<DataPart, ValText(<<"y">>)>> }
TaskIDs   == { <<"k">> }
Replies ==
    { Reply(TRUE, "nil", <<>>, <<>>) }
    \cup { Reply(FALSE, "message", ps, <<>>) : ps \in SyncParts }
    \cup { Reply(FALSE, "task", <<>>, id) : id \in TaskIDs }

\* no reply received (yet)
NoReply == Reply(FALSE, "none", <<>>, <<>>)

RECURSIVE valueTextOfParts(_)
\* session.go:388-392, the loop over msg.Parts asserting protocol.TextPart
valueTextOfParts(ps) ==
    IF ps = <<>> THEN <<>>
    ELSE (IF Head(ps).ty = "TextPart" THEN Head(ps).s ELSE <<>>)
         \o valueTextOfParts(Tail(ps))

\* ------------------------------------------------------------------ state
VARIABLES
    objs,      \* the Session instances allocated so far (a *Session is an index)
    sessions,  \* Manager.sessions: id -> instance, 0 when absent
    disk,      \* data/conversations/<id>.json
    stats,     \* stats.Stats counters
    tr,        \* per turn: position and locals of the goroutine(s) of one Run* call
    crashed,   \* TRUE once a goroutine panicked (the process is gone)
    obs,       \* history variable, per turn: what the turn has done so far
    rec,       \* history variable, per instance: turns returned, turns overlapped
    mgr,       \* the manager operation that holds m.mu, if any
    ans,       \* history variable: the last manager operation and what it returned
    unit       \* the part of the server outside the Session Manager under study

vars == <<objs, sessions, disk, stats, tr, crashed, obs, rec, mgr, ans, unit>>

Session(id, name, hist, wd, ctx, task) ==
    [id |-> id, name |-> name, hist |-> hist, wd |-> wd, ctx |-> ctx, task |-> task]

\* A history line: prefix + text; turn records which invocation appended it.
Line(pfx, txt, t) == [pfx |-> pfx, txt |-> txt, turn |-> t]

\* by and n are history variables: the turn that wrote the file (0 for
\* CreateSession) and the number of turns that had returned on the
\* conversation when the turn that wrote it returned.
\* bad marks a file that json cannot decode (save truncated it and the write
\* failed); s is what decoding the file gives.
NoFile == [present |-> FALSE, bad |-> FALSE,
           s |-> Session("", <<>>, <<>>, <<>>, "", ""), by |-> 0, n |-> 0]
File(s, by, n) == [present |-> TRUE, bad |-> FALSE, s |-> s, by |-> by, n |-> n]
BadFile == [NoFile EXCEPT !.present = TRUE, !.bad = TRUE]

\* no manager operation is between its Lock and its Unlock
IdleMgr == [pc |-> "idle", id |-> "", wd |-> <<>>]

\* LockHeld with the lock kept by every turn until it returns
LockHeldInTurn ==
    \/ mgr.pc # "idle"
    \/ \E t \in Turns : tr[t].pc \notin {"idle", "done", "notfound", "gone"}

LockHeld == mgr.pc # "idle"

\* nothing returned yet; isNil says that the slice ListConversations
\* returned was nil and body is what the list endpoint answered.  made[id] is the instance the last successful
\* CreateSession(id) made, 0 once a delete of id or a clearing of the
\* cache has come; live holds the ids created and not deleted since; seen
\* is the history the last acquirer found in the instance it was given;
\* had says whether the last os.Remove found the file.
NoAns ==
    [op |-> "none", id |-> "", ok |-> TRUE, obj |-> 0, list |-> <<>>,
     made |-> [id \in Ids |-> 0], live |-> {}, seen |-> <<>>, had |-> FALSE,
     isNil |-> TRUE, body |-> [null |-> FALSE, items |-> <<>>]]

IdleTurn ==
    [pc |-> "idle", mode |-> "none", s |-> 0, prompt |-> <<>>,
     callErr |-> FALSE, text |-> <<>>, ev |-> NoEvent, h |-> <<>>, ret |-> {},
     out |-> <<>>]
GoneTurn == [IdleTurn EXCEPT !.pc = "gone"]

IdleObs ==
    [nCons |-> 0, lastCons |-> NoEvent, nDeliv |-> 0,
     failed |-> "no", ctx0 |-> "", task0 |-> "",
     tabText |-> <<>>, tabCtx |-> "", tabTask |-> "", amText |-> <<>>,
     sawFinal |-> FALSE, afterFinal |-> FALSE,
     nUser |-> 0, nAgent |-> 0, nSave |-> 0, nStats |-> 0, outRec |-> 0,
     agentTxt |-> <<>>, late |-> FALSE, sawEmpty |-> FALSE,
     h0 |-> <<>>, name0 |-> <<>>, reply |-> NoReply, saveErr |-> FALSE,
     sentCtx |-> "", sentTask |-> ""]

\* nothing outside the Session Manager is under study
NoUnit == [fn |-> "none"]

NewRec(n) == [returned |-> n, saved |-> n, raced |-> FALSE]

InitManager ==
    /\ objs = <<>>
    /\ sessions = [id \in Ids |-> 0]
    /\ disk = [id \in Ids |-> NoFile]
    /\ stats = [calls |-> 0, chin |-> 0, chout |-> 0]
    /\ tr = [t \in Turns |-> IdleTurn]
    /\ crashed = FALSE
    /\ obs = [t \in Turns |-> IdleObs]
    /\ rec = <<>>
    /\ mgr = IdleMgr
    /\ ans = NoAns

Init == InitManager /\ unit = NoUnit

InFlight(t) == tr[t].pc \notin {"idle", "done", "notfound", "gone"}
Quiet == \A t \in Turns : tr[t].pc \in {"idle", "gone"}

\* ------------------------------------------------------- Session Manager
\* The three bytes of U+FFFD.
Utf8Replacement == <<"\\xEF", "\\xBF", "\\xBD">>

RECURSIVE toValidUTF8(_)
\* encoding/json writes a Go string coerced to valid UTF-8: every invalid
\* byte becomes U+FFFD.  Decoding gives back what was written.
toValidUTF8(str) ==
    IF str = <<>> THEN <<>>
    ELSE (IF Head(str) = BadByte THEN Utf8Replacement ELSE <<Head(str)>>)
         \o toValidUTF8(Tail(str))

\* encoder.Encode(s) (session.go:318-319), as the Session that decoding the
\* written file gives.  The id and the continuation identifiers come from
\* the URL path and from decoded JSON; they hold no invalid byte.
Encode(s) ==
    [s EXCEPT !.name = toValidUTF8(@),
              !.wd = toValidUTF8(@),
              !.hist = [i \in 1..Len(s.hist) |->
                            [s.hist[i] EXCEPT !.txt = toValidUTF8(@)]]]

\* Session.save: os.Create truncates <id>.json and Encode writes it.  The
\* outcomes: written ("ok"); os.Create fails and the file is left as it
\* was ("nocreate"); the write fails and the file is left truncated
\* ("nowrite").
SaveOutcomes == {"ok", "nocreate", "nowrite"}
saveAs(s, outcome, by, n) ==
    CASE outcome = "ok"       -> [disk EXCEPT ![s.id] = File(Encode(s), by, n)]
      [] outcome = "nocreate" -> disk
      [] outcome = "nowrite"  -> [disk EXCEPT ![s.id] = BadFile]

\* fileLoads taking every file that exists for a readable one
fileLoadsAny(f) == f.present

\* Manager.load: a new instance decoded from the file; it fails when the
\* file is missing or cannot be decoded.
fileLoads(f) == f.present /\ ~f.bad
CanLoad(id) == fileLoads(disk[id])
load(id) == disk[id].s

\* cacheInsert leaving the map as it was
cacheInsertNothing(cache, id, o) == cache

\* `m.sessions[sessionID] = session`
cacheInsert(cache, id, o) == [cache EXCEPT ![id] = o]

\* Manager.CreateSession, session.go:355-362: Lock, and the new Session
\* value; the save that follows runs with the lock held.
CreateSession(id, wd) ==
    /\ ~crashed
    /\ ~LockHeld
    /\ Len(objs) < MaxObj
    /\ mgr' = [pc |-> "save", id |-> id, wd |-> wd]
    /\ UNCHANGED <<unit, objs, sessions, disk, stats, tr, crashed, obs, rec, ans>>

\* session.go:363-368: the save ends; on success the instance is put into
\* the map; when the save fails nothing is inserted and the instance, which
\* nobody holds, is dropped.  Unlock.
CreateSessionSave(outcome) ==
    /\ ~crashed
    /\ mgr.pc = "save"
    /\ LET s  == Session(mgr.id, NewConversationName, <<>>, mgr.wd, "", "")
           o  == Len(objs) + 1
           ok == outcome = "ok"
       IN  /\ objs' = IF ok THEN Append(objs, s) ELSE objs
           /\ rec' = IF ok THEN Append(rec, NewRec(0)) ELSE rec
           /\ disk' = saveAs(s, outcome, 0, 0)
           /\ sessions' = IF ok THEN cacheInsert(sessions, mgr.id, o) ELSE sessions
           /\ ans' = [ans EXCEPT !.op = "create", !.id = mgr.id, !.ok = ok,
                                 !.obj = IF ok THEN o ELSE 0,
                                 !.made[mgr.id] = IF ok THEN o ELSE @,
                                 !.live = IF ok THEN @ \cup {mgr.id} ELSE @]
    /\ mgr' = IdleMgr
    /\ UNCHANGED <<unit, stats, tr, obs, crashed>>

\* Manager.DeleteSession, session.go:564-566: Lock and delete(m.sessions, id);
\* the os.Remove that follows runs with the lock held.
DeleteSession(id) ==
    /\ ~crashed
    /\ ~LockHeld
    /\ sessions' = [sessions EXCEPT ![id] = 0]
    /\ mgr' = [pc |-> "remove", id |-> id, wd |-> <<>>]
    /\ ans' = [ans EXCEPT !.made[id] = 0]
    /\ UNCHANGED <<unit, objs, disk, stats, tr, crashed, obs, rec>>

\* removeError taking a missing file for a failure
removeErrorStrict(present, fails) == fails \/ ~present

\* `err != nil && !os.IsNotExist(err)` (session.go:568): a missing file is
\* no error; fails says that os.Remove fails for another reason.
removeError(present, fails) == fails

\* session.go:567-572: os.Remove ends.  Unlock.
DeleteSessionRemove(fails) ==
    /\ ~crashed
    /\ mgr.pc = "remove"
    /\ LET id  == mgr.id
           err == removeError(disk[id].present, fails)
       IN  /\ disk' = IF fails THEN disk ELSE [disk EXCEPT ![id] = NoFile]
           /\ ans' = [ans EXCEPT !.op = "delete", !.id = id, !.ok = ~err, !.obj = 0,
                                 !.made[id] = 0, !.had = disk[id].present,
                                 !.live = IF err THEN @ ELSE @ \ {id}]
    /\ mgr' = IdleMgr
    /\ UNCHANGED <<unit, objs, sessions, stats, tr, crashed, obs, rec>>

\* Manager.AcquireSession: the cached instance, else load and insert.
AcquireOk(id)   == sessions[id] # 0 \/ CanLoad(id)
AcquireLoads(id) == sessions[id] = 0 /\ CanLoad(id)
AcquireObj(id)  == IF sessions[id] # 0 THEN sessions[id] ELSE Len(objs) + 1

\* touch clearing the name
touchRenames(s) == [s EXCEPT !.name = NewConversationName]

\* `session.LastAccess = time.Now()` (session.go:342): no field of the model
\* changes.
touch(s) == s

\* AcquireSession called by a client of the manager (main.go:138, the
\* tests): Lock, look up, load and insert on a miss, Unlock.
AcquireSession(id) ==
    /\ ~crashed
    /\ ~LockHeld
    /\ AcquireLoads(id) => Len(objs) < MaxObj
    /\ LET o == AcquireObj(id) IN
       /\ objs' = IF AcquireLoads(id) THEN Append(objs, load(id))
                  ELSE IF sessions[id] # 0 THEN [objs EXCEPT ![o] = touch(@)]
                  ELSE objs
       /\ rec' = IF AcquireLoads(id) THEN Append(rec, NewRec(disk[id].n)) ELSE rec
       /\ sessions' = IF AcquireLoads(id) THEN cacheInsert(sessions, id, o) ELSE sessions
       /\ ans' = [ans EXCEPT !.op = "acquire", !.id = id, !.ok = AcquireOk(id),
                             !.obj = IF AcquireOk(id) THEN o ELSE 0,
                             !.seen = IF AcquireOk(id) THEN objs'[o].hist
                                      ELSE <<>>]
    /\ UNCHANGED <<unit, disk, stats, tr, crashed, obs, mgr>>

\* os.ReadDir returns the directory entries sorted by file name.
SortedIds == <<"a", "b">>
dirEntries(d) == SelectSeq(SortedIds, LAMBDA id : d[id].present)

\* listEntry leaving the name out
listEntryUnnamed(s) == [id |-> s.id, name |-> <<>>]

\* ConversationInfo{ID: session.ID, Name: session.Name}
listEntry(s) == [id |-> s.id, name |-> s.name]

RECURSIVE listFrom(_, _, _, _)
\* The loop of ListConversations (session.go:587-598) over the entries ids,
\* from cache and instances os with the files d: AcquireSession for each
\* entry, an entry whose load fails being skipped.  The result: the list,
\* the cache and the instances after the loop, and the ids loaded.
listFrom(ids, cache, os, d) ==
    IF ids = <<>>
    THEN [list |-> <<>>, cache |-> cache, objs |-> os, loaded |-> <<>>]
    ELSE LET id   == Head(ids)
             hit  == cache[id] # 0
             can  == fileLoads(d[id])
             o    == IF hit THEN cache[id] ELSE Len(os) + 1
             os1  == IF hit THEN [os EXCEPT ![o] = touch(@)]
                     ELSE IF can THEN Append(os, d[id].s) ELSE os
             c1   == IF ~hit /\ can THEN cacheInsert(cache, id, o) ELSE cache
             rest == listFrom(Tail(ids), c1, os1, d)
         IN  [rest EXCEPT
                !.list = (IF hit \/ can THEN <<listEntry(os1[o])>> ELSE <<>>) \o @,
                !.loaded = (IF ~hit /\ can THEN <<id>> ELSE <<>>) \o @]

\* json.NewEncoder(w).Encode(conversations): null for a nil slice, else an
\* array of the entries, their strings coerced to valid UTF-8.
jsonOfList(l, isNil) ==
    [null  |-> isNil,
     items |-> [i \in 1..Len(l) |->
                  [id |-> l[i].id, name |-> toValidUTF8(l[i].name)]]]

\* listConversationsHandler encoding the slice as it got it
listConversationsHandlerAsIs(l, isNil) == jsonOfList(l, isNil)

\* listConversationsHandler (main.go:99-110): a nil slice is replaced by an
\* empty one before it is encoded.
listConversationsHandler(l, isNil) == jsonOfList(l, FALSE)

\* Manager.ListConversations: ReadDir, then the loop.  `var conversations
\* []ConversationInfo` stays nil unless an entry is appended.  The answer of
\* the list endpoint for the result is recorded with it.
ListConversations ==
    /\ ~crashed
    /\ ~LockHeld
    /\ LET r == listFrom(dirEntries(disk), sessions, objs, disk) IN
       /\ Len(r.objs) <= MaxObj
       /\ objs' = r.objs
       /\ sessions' = r.cache
       /\ rec' = rec \o [i \in 1..Len(r.loaded) |-> NewRec(disk[r.loaded[i]].n)]
       /\ ans' = [ans EXCEPT !.op = "list", !.id = "", !.ok = TRUE, !.obj = 0,
                             !.list = r.list, !.isNil = r.list = <<>>,
                             !.body = listConversationsHandler(r.list,
                                                               r.list = <<>>)]
    /\ UNCHANGED <<unit, disk, stats, tr, crashed, obs, mgr>>

\* `manager.sessions = make(map[string]*Session)` (part_001:142): the cache
\* is emptied, as it is when the server starts again.
ClearCache ==
    /\ ~crashed
    /\ ~LockHeld
    /\ sessions' = [id \in Ids |-> 0]
    /\ ans' = [ans EXCEPT !.op = "clear", !.id = "", !.ok = TRUE, !.obj = 0,
                          !.made = [id \in Ids |-> 0]]
    /\ UNCHANGED <<unit, objs, disk, stats, tr, crashed, obs, rec, mgr>>

\* ----------------------------------------------------------- turn entry
\* postPromptHandler / postPromptStreamHandler (main.go:147-229): the
\* handler acquires the session by id and, when that succeeds, runs
\* RunPrompt, RunPromptAsTask or RunPromptStream on the instance it got.
BeginTurn(t, id, mode, p) ==
    /\ ~crashed
    /\ ~LockHeld
    /\ tr[t].pc = "idle"
    /\ \A u \in Turns : u < t => tr[u].pc # "idle"
    /\ AcquireLoads(id) => Len(objs) < MaxObj
    /\ objs' = IF AcquireLoads(id) THEN Append(objs, load(id)) ELSE objs
    /\ sessions' = IF AcquireLoads(id) THEN cacheInsert(sessions, id, Len(objs) + 1)
                   ELSE sessions
    /\ LET o     == AcquireObj(id)
           rec1  == IF AcquireLoads(id) THEN Append(rec, NewRec(disk[id].n)) ELSE rec
           races == \E u \in Turns : InFlight(u) /\ tr[u].s = o
       IN  IF AcquireOk(id)
           THEN /\ tr' = [tr EXCEPT ![t] =
                            [IdleTurn EXCEPT !.pc = IF mode = "stream" THEN "open" ELSE "call",
                                             !.mode = mode, !.s = o, !.prompt = p]]
                /\ rec' = [rec1 EXCEPT ![o].raced = @ \/ races]
                /\ obs' = [obs EXCEPT ![t].late = rec1[o].saved > 0,
                                      ![t].h0 = objs'[o].hist,
                                      ![t].name0 = objs'[o].name]
           ELSE /\ tr' = [tr EXCEPT ![t] = [IdleTurn EXCEPT !.pc = "notfound", !.mode = mode]]
                /\ rec' = rec1
                /\ obs' = obs
    /\ UNCHANGED <<unit, disk, stats, crashed, mgr, ans>>

\* The ContextID and the TaskID of the outbound message: RunPrompt and
\* RunPromptAsTask send &s.ID and no task (session.go:377, 418),
\* RunPromptStream sends &s.ContextID and &s.TaskID (session.go:470-471).
callContextID(mode, s) == IF mode = "stream" THEN s.ctx ELSE s.id
callTaskID(mode, s) == IF mode = "stream" THEN s.task ELSE ""

\* the handler answers the request and its goroutine ends
Exit(t) ==
    /\ ~crashed
    /\ tr[t].pc \in {"done", "notfound"}
    /\ tr' = [tr EXCEPT ![t] = GoneTurn]
    /\ obs' = [obs EXCEPT ![t] = IdleObs]
    /\ UNCHANGED <<unit, objs, rec, sessions, disk, stats, crashed, mgr, ans>>

\* ------------------------------------------- RunPrompt / RunPromptAsTask
\* RunPrompt, session.go:382-394: SendMessage returns; the response text is
\* the concatenation of the text parts of a *protocol.Message result.
RunPromptCall(t, r) ==
    /\ ~crashed
    /\ tr[t].pc = "call" /\ tr[t].mode = "sync"
    /\ tr' = [tr EXCEPT ![t].pc = "stats", ![t].callErr = r.err,
                        ![t].text = IF r.res = "message"
                                    THEN valueTextOfParts(r.parts) ELSE <<>>]
    /\ obs' = [obs EXCEPT ![t].reply = r,
                          ![t].ctx0 = objs[tr[t].s].ctx,
                          ![t].task0 = objs[tr[t].s].task,
                          ![t].sentCtx = callContextID("sync", objs[tr[t].s]),
                          ![t].sentTask = callTaskID("sync", objs[tr[t].s])]
    /\ UNCHANGED <<unit, objs, rec, sessions, disk, stats, crashed, mgr, ans>>

\* RunPromptAsTask, session.go:426-434: the task id of a *protocol.Task result.
RunPromptAsTaskCall(t, r) ==
    /\ ~crashed
    /\ tr[t].pc = "call" /\ tr[t].mode = "task"
    /\ tr' = [tr EXCEPT ![t].pc = "stats", ![t].callErr = r.err,
                        ![t].text = IF r.res = "task" THEN r.id ELSE <<>>]
    /\ obs' = [obs EXCEPT ![t].reply = r,
                          ![t].ctx0 = objs[tr[t].s].ctx,
                          ![t].task0 = objs[tr[t].s].task,
                          ![t].sentCtx = callContextID("task", objs[tr[t].s]),
                          ![t].sentTask = callTaskID("task", objs[tr[t].s])]
    /\ UNCHANGED <<unit, objs, rec, sessions, disk, stats, crashed, mgr, ans>>

\* ------------------------------------------------------ RunPromptStream
\* session.go:478-481: StreamMessage; an error here returns at once.
StreamMessage(t, ok) ==
    /\ ~crashed
    /\ tr[t].pc = "open"
    /\ tr' = [tr EXCEPT ![t].pc = IF ok THEN "recv" ELSE "done",
                        ![t].callErr = ~ok,
                        ![t].ret = IF ok THEN {} ELSE {"call"}]
    /\ rec' = [rec EXCEPT ![tr[t].s].returned = IF ok THEN @ ELSE @ + 1]
    /\ obs' = [obs EXCEPT ![t].failed = IF ok THEN "no" ELSE "open",
                          ![t].ctx0 = objs[tr[t].s].ctx,
                          ![t].task0 = objs[tr[t].s].task,
                          ![t].sentCtx = callContextID("stream", objs[tr[t].s]),
                          ![t].sentTask = callTaskID("stream", objs[tr[t].s]),
                          ![t].tabCtx = objs[tr[t].s].ctx,
                          ![t].tabTask = objs[tr[t].s].task]
    /\ UNCHANGED <<unit, objs, sessions, disk, stats, crashed, mgr, ans>>

\* relayText with the text of an artifact update accumulated as well
relayTextWithArtifacts(e, text) ==
    CASE e.kind \in {KindMessage, KindTaskArtifactUpdate} -> text \o extractTextFromMessage(e)
      [] e.kind = KindTaskStatusUpdate ->
            IF e.hasMsg /\ e.mkind = KindMessage
            THEN text \o extractTextFromMessage(e) ELSE text
      [] OTHER -> text

\* The switch of session.go:490-534 on one event: the new responseText, the
\* new s.ContextID and s.TaskID, and whether a nil *string was dereferenced
\* (line 497 or 498) before the event could be forwarded.
relayText(e, text) ==
    CASE e.kind = KindMessage -> text \o extractTextFromMessage(e)
      [] e.kind = KindTaskStatusUpdate ->
            IF e.hasMsg /\ e.mkind = KindMessage
            THEN text \o extractTextFromMessage(e) ELSE text
      [] OTHER -> text

\* relayCtx with an unrecognised event taken for a classified one
relayCtxFromUnknown(e, ctx) ==
    CASE e.kind = KindMessage -> IF e.ctx = NilPtr THEN ctx ELSE e.ctx
      [] OTHER -> e.ctx

relayCtx(e, ctx) ==
    CASE e.kind = KindMessage -> IF e.ctx = NilPtr THEN ctx ELSE e.ctx
      [] e.kind \in {KindTaskArtifactUpdate, KindTask, KindTaskStatusUpdate} -> e.ctx
      [] OTHER -> ctx

relayTask(e, task) ==
    CASE e.kind = KindMessage ->
            IF e.ctx = NilPtr \/ e.task = NilPtr THEN task ELSE e.task
      [] e.kind \in {KindTaskArtifactUpdate, KindTask, KindTaskStatusUpdate} -> e.task
      [] OTHER -> task

relayPanics(e) == e.kind = KindMessage /\ (e.ctx = NilPtr \/ e.task = NilPtr)

\* What the table of the streaming relay prescribes for one event: the text
\* it contributes and whether it carries continuation identifiers.
TableText(e) ==
    IF e.kind = KindMessage \/ (e.kind = KindTaskStatusUpdate /\ e.hasMsg)
    THEN extractTextFromParts(e.parts) ELSE <<>>
TableClassified(e) ==
    e.kind \in {KindMessage, KindTask, KindTaskArtifactUpdate, KindTaskStatusUpdate}
\* the same, counting an embedded message only when its kind is "message"
AmendedText(e) ==
    IF e.kind = KindMessage
       \/ (e.kind = KindTaskStatusUpdate /\ e.hasMsg /\ e.mkind = KindMessage)
    THEN extractTextFromParts(e.parts) ELSE <<>>

\* session.go:488-534: the relay goroutine takes the next event from
\* internalChan and classifies it.
RelayRecv(t, e) ==
    /\ ~crashed
    /\ tr[t].pc = "recv"
    /\ obs[t].nCons < MaxEvents
    /\ LET s == tr[t].s IN
       /\ objs' = [objs EXCEPT ![s].ctx = relayCtx(e, @), ![s].task = relayTask(e, @)]
       /\ tr' = [tr EXCEPT ![t].pc = IF relayPanics(e) THEN "panic" ELSE "send",
                           ![t].ev = e,
                           ![t].text = relayText(e, @)]
       /\ crashed' = relayPanics(e)
       /\ obs' = [obs EXCEPT ![t].nCons = @ + 1, ![t].lastCons = e,
                             ![t].tabText = @ \o TableText(e),
                             ![t].amText = @ \o AmendedText(e),
                             ![t].sawFinal = @ \/ (e.kind = KindTaskArtifactUpdate /\ e.last),
                             ![t].afterFinal = @ \/ (obs[t].sawFinal /\ AmendedText(e) # <<>>),
                             ![t].tabCtx = IF TableClassified(e) THEN e.ctx ELSE @,
                             ![t].tabTask = IF TableClassified(e) THEN e.task ELSE @]
    /\ UNCHANGED <<unit, rec, sessions, disk, stats, mgr, ans>>

\* session.go:535 `eventChan <- event` meets the receive of the handler's
\* `for event := range eventChan` (main.go:219).
SinkRecv(t) ==
    /\ ~crashed
    /\ tr[t].pc = "send"
    /\ tr' = [tr EXCEPT ![t].pc = "recv", ![t].ev = NoEvent]
    /\ obs' = [obs EXCEPT ![t].nDeliv = @ + 1, ![t].lastCons = NoEvent]
    /\ UNCHANGED <<unit, objs, rec, sessions, disk, stats, crashed, mgr, ans>>

\* internalChan is closed by the client library, at the end of the stream
\* or when the transport fails mid-stream; the range loop ends and wg.Wait
\* (session.go:540) returns.  err still holds the nil of line 478.
StreamEnd(t, f) ==
    /\ ~crashed
    /\ tr[t].pc = "recv"
    /\ tr' = [tr EXCEPT ![t].pc = "stats"]
    /\ obs' = [obs EXCEPT ![t].failed = f]
    /\ UNCHANGED <<unit, objs, rec, sessions, disk, stats, crashed, mgr, ans>>

\* ------------------------------------------- the common tail of a turn
\* The statement order of session.go:396-409 (436-449, 543-559): record the
\* call, name the conversation when the history is empty, append the user
\* line, append the agent line, save, return.
\* tailNext with the save moved before the append of the agent line
tailNextSaveEarly(pc, empty) ==
    CASE pc = "stats"   -> "namechk"
      [] pc = "namechk" -> IF empty THEN "nameset" ELSE "appU"
      [] pc = "nameset" -> "appU"
      [] pc = "appU"    -> "appU2"
      [] pc = "appU2"   -> "save"
      [] pc = "save"    -> "appA"
      [] pc = "appA"    -> "appA2"
      [] pc = "appA2"   -> "done"

tailNext(pc, empty) ==
    CASE pc = "stats"   -> "namechk"
      [] pc = "namechk" -> IF empty THEN "nameset" ELSE "appU"
      [] pc = "nameset" -> "appU"
      [] pc = "appU"    -> "appU2"
      [] pc = "appU2"   -> "appA"
      [] pc = "appA"    -> "appA2"
      [] pc = "appA2"   -> "save"
      [] pc = "save"    -> "done"

\* needsName without the test
needsNameAlways(hist) == TRUE

\* `len(s.History) == 0`
needsName(hist) == Len(hist) = 0

\* appendLine putting the line in front
prependLine(h, line) == <<line>> \o h

\* `append(s.History, line)`
appendLine(h, line) == Append(h, line)

\* outChars counting the task identifier as output
outCharsOfText(mode, text) == Len(text)

\* Stats.RecordCall (stats.go:21-29), called at session.go:396, 436, 543
\* with len(prompt) and len(responseText), or 0 for a task.
outChars(mode, text) == IF mode = "task" THEN 0 ELSE Len(text)

RecordCall(t) ==
    /\ ~crashed
    /\ tr[t].pc = "stats"
    /\ stats' = [stats EXCEPT !.calls = @ + 1,
                              !.chin  = @ + Len(tr[t].prompt),
                              !.chout = @ + outChars(tr[t].mode, tr[t].text)]
    /\ tr' = [tr EXCEPT ![t].pc = tailNext("stats", FALSE)]
    /\ obs' = [obs EXCEPT ![t].nStats = @ + 1,
                          ![t].outRec = outChars(tr[t].mode, tr[t].text)]
    /\ UNCHANGED <<unit, objs, rec, sessions, disk, crashed, mgr, ans>>

\* `if len(s.History) == 0` (session.go:398, 438, 545): the read ...
NameCheck(t) ==
    /\ ~crashed
    /\ tr[t].pc = "namechk"
    /\ tr' = [tr EXCEPT ![t].pc = tailNext("namechk", needsName(objs[tr[t].s].hist))]
    /\ obs' = [obs EXCEPT ![t].sawEmpty = Len(objs[tr[t].s].hist) = 0]
    /\ UNCHANGED <<unit, objs, rec, sessions, disk, stats, crashed, mgr, ans>>

\* ... and the write `s.Name = generateNameFromPrompt(prompt)`.
NameSet(t) ==
    /\ ~crashed
    /\ tr[t].pc = "nameset"
    /\ objs' = [objs EXCEPT ![tr[t].s].name = generateNameFromPrompt(tr[t].prompt)]
    /\ tr' = [tr EXCEPT ![t].pc = tailNext("nameset", FALSE)]
    /\ UNCHANGED <<unit, rec, sessions, disk, stats, obs, crashed, mgr, ans>>

\* the text of the "Gemini: " line (session.go:403, 443, 550)
agentText(mode, text) ==
    IF mode = "task" THEN TaskOpen \o text \o TaskClose ELSE text

\* `s.History = append(s.History, ...)` is not synchronised: it reads the
\* slice (HistoryRead) and then stores the extended slice (HistoryWrite).
HistoryRead(t) ==
    /\ ~crashed
    /\ tr[t].pc \in {"appU", "appA"}
    /\ tr' = [tr EXCEPT ![t].pc = tailNext(@, FALSE),
                        ![t].h = objs[tr[t].s].hist]
    /\ UNCHANGED <<unit, objs, rec, sessions, disk, stats, obs, crashed, mgr, ans>>

HistoryWrite(t) ==
    /\ ~crashed
    /\ tr[t].pc \in {"appU2", "appA2"}
    /\ LET user == tr[t].pc = "appU2"
           line == IF user THEN Line(UserPrefix, tr[t].prompt, t)
                   ELSE Line(GeminiPrefix, agentText(tr[t].mode, tr[t].text), t)
       IN  /\ objs' = [objs EXCEPT ![tr[t].s].hist = appendLine(tr[t].h, line)]
           /\ tr' = [tr EXCEPT ![t].pc = tailNext(@, FALSE),
                               ![t].h = <<>>]
           /\ obs' = [obs EXCEPT ![t].nUser  = IF user THEN @ + 1 ELSE @,
                                 ![t].nAgent = IF user THEN @ ELSE @ + 1,
                                 ![t].agentTxt = IF user THEN @ ELSE line.txt]
    /\ UNCHANGED <<unit, rec, sessions, disk, stats, crashed, mgr, ans>>

\* the error a turn returns (session.go:405-409, 445-449, 552-559), as the
\* set of failures it reports
turnError(callErr, saveOk) ==
    (IF callErr THEN {"call"} ELSE {}) \cup (IF saveOk THEN {} ELSE {"save"})

\* the value a turn returns beside the error: responseText, taskID, or
\* nothing for RunPromptStream
turnValue(mode, text) == IF mode = "stream" THEN <<>> ELSE text

\* s.save(m.sessionDataPath) and the return of the turn
SaveAs(t, outcome) ==
    /\ ~crashed
    /\ tr[t].pc = "save"
    /\ LET ok == outcome = "ok" IN
       /\ disk' = saveAs(objs[tr[t].s], outcome, t, rec[tr[t].s].returned + 1)
       /\ tr' = [tr EXCEPT ![t].pc = tailNext("save", FALSE),
                           ![t].ret = turnError(tr[t].callErr, ok),
                           ![t].out = turnValue(tr[t].mode, tr[t].text)]
       /\ rec' = [rec EXCEPT ![tr[t].s].returned = @ + 1, ![tr[t].s].saved = @ + 1]
       /\ obs' = [obs EXCEPT ![t].nSave = @ + 1, ![t].saveErr = ~ok]
    /\ UNCHANGED <<unit, objs, sessions, stats, crashed, mgr, ans>>

\* the save of a turn, written or refused by os.Create
Save(t, ok) == SaveAs(t, IF ok THEN "ok" ELSE "nocreate")

\* ------------------------------------------------------- specifications
TurnStep(Rs, Es, Fs, Oks) ==
    \/ \E t \in Turns, r \in Rs : RunPromptCall(t, r)
    \/ \E t \in Turns, r \in Rs : RunPromptAsTaskCall(t, r)
    \/ \E t \in Turns, ok \in Oks : StreamMessage(t, ok)
    \/ \E t \in Turns, e \in Es : RelayRecv(t, e)
    \/ \E t \in Turns : SinkRecv(t)
    \/ \E t \in Turns, f \in Fs : StreamEnd(t, f)
    \/ \E t \in Turns : RecordCall(t)
    \/ \E t \in Turns : NameCheck(t)
    \/ \E t \in Turns : NameSet(t)
    \/ \E t \in Turns : HistoryRead(t)
    \/ \E t \in Turns : HistoryWrite(t)
    \/ \E t \in Turns, ok \in Oks : Save(t, ok)
    \/ \E t \in Turns : Exit(t)

ManagerStep(I, Outs, Fs) ==
    \/ \E id \in I, wd \in WorkDirs : Quiet /\ CreateSession(id, wd)
    \/ \E outcome \in Outs : CreateSessionSave(outcome)
    \/ \E id \in I : Quiet /\ DeleteSession(id)
    \/ \E fails \in Fs : DeleteSessionRemove(fails)

\* Sequential use of one conversation: the callers issue one operation
\* after another.  The saves of CreateSession succeed and os.Remove fails
\* only for a missing file; SpecStore has the failing ones.
Next ==
    \/ ManagerStep({"a"}, {"ok"}, {FALSE})
    \/ TurnStep(Replies, Events, {"no", "mid"}, BOOLEAN)
    \/ \E t \in Turns, id \in {"a"}, m \in Modes :
          \E p \in PromptsOf(m) : Quiet /\ BeginTurn(t, id, m, p)

Spec == Init /\ [][Next]_vars

\* Concurrent use of one conversation: the two requests may overlap.  The
\* agent's answers are cut down to one reply and one event, and saves succeed.
OverlapReplies == { Reply(FALSE, "message", <<ValText(<<"x">>)>>, <<>>) }
OverlapEvents  == { Ev(KindMessage, "c1", "t1", FALSE, "", X, FALSE) }

NextOverlap ==
    \/ ManagerStep({"a"}, {"ok"}, {FALSE})
    \/ TurnStep(OverlapReplies, OverlapEvents, {"no"}, {TRUE})
    \/ \E t \in Turns, id \in {"a"}, m \in Modes, p \in Prompts :
          BeginTurn(t, id, m, p)

SpecOverlap == Init /\ [][NextOverlap]_vars

\* The store: two conversations, every manager operation, the cache cleared
\* at will, one operation after another.  The turns are RunPrompt turns with
\* one reply; a save may succeed, be refused or leave a truncated file.
StorePrompts == { <<"h","i">> }

StoreTurnStep ==
    \/ \E t \in Turns, r \in OverlapReplies : RunPromptCall(t, r)
    \/ \E t \in Turns : RecordCall(t)
    \/ \E t \in Turns : NameCheck(t)
    \/ \E t \in Turns : NameSet(t)
    \/ \E t \in Turns : HistoryRead(t)
    \/ \E t \in Turns : HistoryWrite(t)
    \/ \E t \in Turns, outcome \in SaveOutcomes : SaveAs(t, outcome)
    \/ \E t \in Turns : Exit(t)

NextStore ==
    \/ ManagerStep(Ids, SaveOutcomes, BOOLEAN)
    \/ \E id \in Ids : Quiet /\ AcquireSession(id)
    \/ Quiet /\ ListConversations
    \/ Quiet /\ ClearCache
    \/ StoreTurnStep
    \/ \E t \in Turns, id \in Ids, p \in StorePrompts :
          Quiet /\ BeginTurn(t, id, "sync", p)

SpecStore == Init /\ [][NextStore]_vars

\* Concurrent use of distinct conversations: a manager operation or a turn
\* on one conversation runs while turns on other conversations are in
\* flight; the callers keep the operations on one conversation apart.
NoTurnOn(id) == \A t \in Turns : InFlight(t) => objs[tr[t].s].id # id

\* a step of turn t, whatever the agent, the stream or the save gives
StepOf(t) ==
    \/ \E r \in OverlapReplies : RunPromptCall(t, r)
    \/ \E r \in OverlapReplies : RunPromptAsTaskCall(t, r)
    \/ StreamMessage(t, TRUE)
    \/ \E e \in OverlapEvents : RelayRecv(t, e)
    \/ SinkRecv(t)
    \/ StreamEnd(t, "no")
    \/ RecordCall(t)
    \/ NameCheck(t)
    \/ NameSet(t)
    \/ HistoryRead(t)
    \/ HistoryWrite(t)
    \/ Save(t, TRUE)
    \/ Exit(t)

\* Conversation a has the first turn, of any mode; conversation b has the
\* manager operations and the second turn, a synchronous one; a
\* conversation is created when it has no file.

NextConc ==
    \/ \E id \in Ids, wd \in WorkDirs :
          ~disk[id].present /\ NoTurnOn(id) /\ CreateSession(id, wd)
    \/ CreateSessionSave("ok")
    \/ NoTurnOn("b") /\ DeleteSession("b")
    \/ DeleteSessionRemove(FALSE)
    \/ NoTurnOn("b") /\ AcquireSession("b")
    \/ ListConversations
    \/ \E t \in Turns : StepOf(t)
    \/ \E m \in Modes, p \in StorePrompts : BeginTurn(1, "a", m, p)
    \/ \E p \in StorePrompts : BeginTurn(2, "b", "sync", p)

SpecConc == Init /\ [][NextConc]_vars

\* One conversation under every operation at once: the manager operations
\* on conversation a run while a RunPrompt turn on a is in flight, as two
\* requests for one identifier do; the turns come one after the other.  A turn holds no lock (session.go:372-410),
\* so each of its steps may come before or after a create or a delete.
RaceStep(t) ==
    \/ \E r \in OverlapReplies : RunPromptCall(t, r)
    \/ RecordCall(t)
    \/ NameCheck(t)
    \/ NameSet(t)
    \/ HistoryRead(t)
    \/ HistoryWrite(t)
    \/ Save(t, TRUE)
    \/ Exit(t)

NextRace ==
    \/ \E wd \in WorkDirs : CreateSession("a", wd)
    \/ CreateSessionSave("ok")
    \/ DeleteSession("a")
    \/ DeleteSessionRemove(FALSE)
    \/ AcquireSession("a")
    \/ ListConversations
    \/ \E t \in Turns : RaceStep(t)
    \/ \E t \in Turns, p \in StorePrompts :
          (\A u \in Turns : ~InFlight(u)) /\ BeginTurn(t, "a", "sync", p)

SpecRace == Init /\ [][NextRace]_vars

\* ============================================== the a2a client (a2aclient)
\* Everything below runs outside the Session Manager: the state of the
\* function under study is in `unit`, the manager's variables stay as built.
mgrVars == <<objs, sessions, disk, stats, tr, crashed, obs, rec, mgr, ans>>

MaxParts == 2
MsgCounts == 0..2

SeqsUpTo(S, n) == UNION {[1..k -> S] : k \in 0..n}

\* One part of a message of the reply: its kind and its text field.
APart(kind, text) == [kind |-> kind, text |-> text]
PartValues == {APart("text", <<"x">>), APart("text", <<>>), APart("data", <<"d">>)}
PartLists  == SeqsUpTo(PartValues, MaxParts)
AMsg(role, parts) == [role |-> role, parts |-> parts]
Messages   == {AMsg(r, ps) : r \in {"agent", "user"}, ps \in PartLists}
NoMessage  == AMsg("", <<>>)

RECURSIVE textOfParts(_)
\* The builder loop over the parts of one message: the non-empty text parts.
textOfParts(ps) ==
    IF ps = <<>> THEN <<>>
    ELSE (IF Head(ps).kind = "text" /\ Head(ps).text # <<>> THEN Head(ps).text ELSE <<>>)
         \o textOfParts(Tail(ps))

RECURSIVE textOfHistory(_)
\* The loop over the history of a task: the agent messages only.
textOfHistory(h) ==
    IF h = <<>> THEN <<>>
    ELSE (IF Head(h).role = "agent" THEN textOfParts(Head(h).parts) ELSE <<>>)
         \o textOfHistory(Tail(h))

\* What the HTTP exchange of SendPrompt produced: whether Post returned, the
\* status, whether the body is JSON, and the decoded result.
RpcReply(post, status, json, kind, history, message) ==
    [post |-> post, status |-> status, json |-> json, kind |-> kind,
     history |-> history, message |-> message]

ClientReplies ==
    {RpcReply(FALSE, 0, FALSE, "", <<>>, NoMessage),
     RpcReply(TRUE, 500, FALSE, "", <<>>, NoMessage),
     RpcReply(TRUE, 200, FALSE, "", <<>>, NoMessage),
     RpcReply(TRUE, 200, TRUE, "status-update", <<>>, NoMessage),
     RpcReply(TRUE, 200, TRUE, "", <<>>, NoMessage)}
    \cup {RpcReply(TRUE, 200, TRUE, "task", h, NoMessage) :
             h \in UNION {[1..k -> Messages] : k \in MsgCounts}}
    \cup {RpcReply(TRUE, 200, TRUE, "message", <<>>, m) : m \in Messages}

Returned(text, err) == [text |-> text, err |-> err]

\* Client.SendPrompt from the reply on; err = "" is the nil error.
SendPrompt(r) ==
    IF ~r.post THEN Returned(<<>>, "post")
    ELSE IF r.status # 200 THEN Returned(<<>>, "status")
    ELSE IF ~r.json THEN Returned(<<>>, "json")
    ELSE IF r.kind = "task" THEN Returned(textOfHistory(r.history), "")
    ELSE IF r.kind = "message" /\ r.message.role = "agent"
         THEN Returned(textOfParts(r.message.parts), "")
    ELSE Returned(<<>>, "no response text")

\* One line of the event stream: whether it starts with "data:", whether
\* its JSON can be read, and the fields of the result.
SseLine(data, json, kind, ctx, task, parts) ==
    [data |-> data, json |-> json, kind |-> kind, ctx |-> ctx, task |-> task,
     parts |-> parts]

StreamKinds == {"message", "status-update", "task", "artifact-update", "ping"}
SseLines ==
    {SseLine(FALSE, FALSE, "", "", "", <<>>), SseLine(TRUE, FALSE, "", "", "", <<>>)}
    \cup {SseLine(TRUE, TRUE, k, "c1", "t1", ps) : k \in StreamKinds, ps \in PartLists}

Streams ==
    {[post |-> FALSE, status |-> 0, lines |-> <<>>, scanErr |-> FALSE],
     [post |-> TRUE, status |-> 500, lines |-> <<>>, scanErr |-> FALSE]}
    \cup {[post |-> TRUE, status |-> 200, lines |-> ls, scanErr |-> e] :
             ls \in UNION {[1..k -> SseLines] : k \in MsgCounts}, e \in BOOLEAN}

\* A StreamEvent put on eventChan; `of` is the line it was made from.
StreamEvent(kind, text, of) == [kind |-> kind, text |-> text, of |-> of]

RECURSIVE eventsOfParts(_, _, _)
\* The two loops of the switch: every part of a message is a text event,
\* the text and data parts of a status update are events of their kind.
eventsOfParts(kind, ps, of) ==
    IF ps = <<>> THEN <<>>
    ELSE (IF kind = "message"
          THEN <<StreamEvent("text", Head(ps).text, of)>>
          ELSE IF Head(ps).kind \in {"text", "data"}
               THEN <<StreamEvent(Head(ps).kind, Head(ps).text, of)>>
               ELSE <<>>)
         \o eventsOfParts(kind, Tail(ps), of)

\* The body of the scanner loop for one line.
eventsOfLine(l, of) ==
    IF ~l.data \/ ~l.json THEN <<>>
    ELSE IF l.kind \in {"message", "status-update"}
         THEN eventsOfParts(l.kind, l.parts, of)
         ELSE <<>>

RECURSIVE scanLines(_, _, _)
\* scanner.Scan over the lines: the events sent, and cID / tID.
scanLines(ls, i, acc) ==
    IF i > Len(ls) THEN acc
    ELSE scanLines(ls, i + 1,
           [events |-> acc.events \o eventsOfLine(ls[i], i),
            ctx |-> IF ls[i].data /\ ls[i].json THEN ls[i].ctx ELSE acc.ctx,
            task |-> IF ls[i].data /\ ls[i].json THEN ls[i].task ELSE acc.task])

\* Client.SendPromptStream from the response on.
SendPromptStream(s) ==
    LET r == scanLines(s.lines, 1, [events |-> <<>>, ctx |-> "", task |-> ""])
    IN  IF ~s.post THEN [events |-> <<>>, ctx |-> "", task |-> "", err |-> "post"]
        ELSE IF s.status # 200
             THEN [events |-> <<>>, ctx |-> "", task |-> "", err |-> "status"]
        ELSE IF s.scanErr
             THEN [events |-> r.events, ctx |-> "", task |-> "", err |-> "scan"]
        ELSE [events |-> r.events, ctx |-> r.ctx, task |-> r.task, err |-> ""]

\* A call of a function: its argument, and its result once it returned.
Call(fn, in) == [fn |-> fn, in |-> in, done |-> FALSE]
Ran(fn) == unit.fn = fn /\ unit.done

CallSendPrompt ==
    /\ unit.fn = "SendPrompt" /\ ~unit.done
    /\ unit' = [fn |-> unit.fn, in |-> unit.in, done |-> TRUE,
                out |-> SendPrompt(unit.in)]
    /\ UNCHANGED mgrVars

CallSendPromptStream ==
    /\ unit.fn = "SendPromptStream" /\ ~unit.done
    /\ unit' = [fn |-> unit.fn, in |-> unit.in, done |-> TRUE,
                out |-> SendPromptStream(unit.in)]
    /\ UNCHANGED mgrVars

\* ----------------------------------------------- names of multi-byte prompts
\* The three bytes of one character (U+3042) and the bytes that continue one.
Kana == <<"e3", "81", "82">>
IsContinuation(b) == b \in {"81", "82"}

\* The tokens the prompts are made of: 2 bytes, 12 bytes of 12 characters,
\* and 12 bytes of 4 characters.
NameTokens == {<<"a", "b">>,
               <<"l", "o", "n", "g", "e", "r", "t", "o", "k", "e", "n", "s">>,
               Kana \o Kana \o Kana \o Kana}
NameTokenCounts == 0..6
NamePrompts ==
    {lead \o Join(ws, sep) :
        lead \in {<<>>, <<"\t">>}, sep \in {<<" ">>, <<" ", "\n">>},
        ws \in UNION {[1..k -> NameTokens] : k \in NameTokenCounts}}

CallGenerateName ==
    /\ unit.fn = "generateNameFromPrompt" /\ ~unit.done
    /\ unit' = [fn |-> unit.fn, in |-> unit.in, done |-> TRUE,
                out |-> generateNameFromPrompt(unit.in)]
    /\ UNCHANGED mgrVars

\* ------------------------------------------------- Basic Authentication
\* The alphabet of base64.StdEncoding, and the value of a character in it.
B64 == <<"A","B","C","D","E","F","G","H","I","J","K","L","M","N","O","P",
         "Q","R","S","T","U","V","W","X","Y","Z","a","b","c","d","e","f",
         "g","h","i","j","k","l","m","n","o","p","q","r","s","t","u","v",
         "w","x","y","z","0","1","2","3","4","5","6","7","8","9","+","/">>
InB64(c) == \E i \in 1..64 : B64[i] = c
B64Val(c) == (CHOOSE i \in 1..64 : B64[i] = c) - 1

\* The bytes of one quantum of four characters, without the padded ones.
quantumBytes(c1, c2, c3, c4, n) ==
    LET v == B64Val(c1) * 262144 + B64Val(c2) * 4096 + B64Val(c3) * 64 + B64Val(c4)
    IN  SubSeq(<<v \div 65536, (v \div 256) % 256, v % 256>>, 1, n)

RECURSIVE DecodeString(_)
\* base64.StdEncoding.DecodeString: the bytes decoded before the first error,
\* which is what the caller keeps when it drops the error.
DecodeString(src) ==
    IF Len(src) < 4 THEN <<>>
    ELSE IF ~InB64(src[1]) \/ ~InB64(src[2]) THEN <<>>
    ELSE IF src[3] = "="
         THEN IF src[4] = "=" THEN quantumBytes(src[1], src[2], "A", "A", 1) ELSE <<>>
    ELSE IF ~InB64(src[3]) THEN <<>>
    ELSE IF src[4] = "=" THEN quantumBytes(src[1], src[2], src[3], "A", 2)
    ELSE IF ~InB64(src[4]) THEN <<>>
    ELSE quantumBytes(src[1], src[2], src[3], src[4], 3)
         \o DecodeString(SubSeq(src, 5, Len(src)))

RECURSIVE SplitN2(_, _, _)
\* strings.SplitN(s, sep, 2) for a separator of one element: the text before
\* the first sep and the text after it, or s alone.
SplitN2(s, sep, before) ==
    IF s = <<>> THEN <<before>>
    ELSE IF Head(s) = sep THEN <<before, Tail(s)>>
    ELSE SplitN2(Tail(s), sep, Append(before, Head(s)))

\* Bytes of the characters the credentials are made of.
Colon == 58
Credential(name) == IF name = "u" THEN <<117>> ELSE IF name = "p" THEN <<112>> ELSE <<>>
\* GEMINI_SRV_USER and GEMINI_SRV_PASS.
Envs == {[user |-> Credential(u), pass |-> Credential(q)] : u \in {"", "u"}, q \in {"", "p"}}

Basic  == <<"B", "a", "s", "i", "c">>
AuthTokens == {<<"d","T","p","w">>, <<"d","T","p","4">>, <<"e","D","p","w">>,
               <<"d","T","o","=">>, <<"d","X","A","=">>, <<"O","n","A","=">>,
               <<"d","T","p","w","O","g","=","=">>, <<"d","T","p","w","c","A","=","=">>,
               <<"d","T","p","w","!">>, <<"d","T","p">>, <<>>}
\* The values of the Authorization header; <<>> is a request without one.
AuthHeaders ==
    {<<>>, Basic, <<"b", "a", "s", "i", "c", " ", "d", "T", "p", "w">>,
     <<"B", "e", "a", "r", "e", "r", " ", "d", "T", "p", "w">>,
     <<"B", "a", "s", "i", "c", " ", " ", "d", "T", "p", "w">>}
    \cup {Basic \o <<" ">> \o tok : tok \in AuthTokens}

Methods == {"GET", "POST", "DELETE", "PUT"}
\* The paths under /api/: the pattern of the mux they match and their suffix.
Paths == {"/api/v1/conversations", "/api/v1/conversations/c", "/api/v1/conversations/c/prompt",
          "/api/v1/conversations/c/prompt/stream", "/api/v1/tasks", "/api/v1/tasks/t",
          "/api/v1/tasks/t/logs", "/api/v1/model", "/api/v1/stats", "/api/v1/other"}
Requests == {[path |-> p, method |-> m, header |-> h] :
                p \in Paths, m \in Methods, h \in AuthHeaders}

Response(status, by) == [status |-> status, by |-> by]
\* A handler that ran; its status is the handler's business.
Handled(h) == Response(0, h)

\* basicAuth with the password test removed.
basicAuthUserOnly(env, header) ==
    LET auth == SplitN2(header, " ", <<>>)
        pair == SplitN2(DecodeString(auth[2]), Colon, <<>>)
    IN  IF env.user = <<>> \/ env.pass = <<>> THEN 500
        ELSE IF Len(auth) # 2 \/ auth[1] # Basic THEN 401
        ELSE IF Len(pair) # 2 \/ pair[1] # env.user THEN 401
        ELSE 0

\* basicAuth: the status it answers with, or 0 when it calls next.
basicAuth(env, header) ==
    LET auth == SplitN2(header, " ", <<>>)
        pair == SplitN2(DecodeString(auth[2]), Colon, <<>>)
    IN  IF env.user = <<>> \/ env.pass = <<>> THEN 500
        ELSE IF Len(auth) # 2 \/ auth[1] # Basic THEN 401
        ELSE IF Len(pair) # 2 \/ pair[1] # env.user \/ pair[2] # env.pass THEN 401
        ELSE 0

\* The mux of setupRouter.
apiV1(env, r) ==
    CASE r.path = "/api/v1/conversations" ->
           (CASE r.method = "GET"  -> Handled("listConversationsHandler")
              [] r.method = "POST" -> Handled("createConversationHandler")
              [] OTHER -> Response(405, "router"))
      [] r.path = "/api/v1/conversations/c/prompt" ->
           IF r.method = "POST" THEN Handled("postPromptHandler")
           ELSE Response(405, "router")
      [] r.path = "/api/v1/conversations/c/prompt/stream" ->
           IF basicAuth(env, r.header) # 0
           THEN Response(basicAuth(env, r.header), "basicAuth")
           ELSE Handled("postPromptStreamHandler")
      [] r.path = "/api/v1/conversations/c" ->
           (CASE r.method = "GET"    -> Handled("getConversationHandler")
              [] r.method = "DELETE" -> Handled("deleteConversationHandler")
              [] OTHER -> Response(405, "router"))
      [] r.path = "/api/v1/tasks" -> Handled("listTasksHandler")
      [] r.path = "/api/v1/tasks/t/logs" -> Handled("getTaskLogsHandler")
      [] r.path = "/api/v1/tasks/t" ->
           (CASE r.method = "GET"    -> Handled("getTaskDetailsHandler")
              [] r.method = "DELETE" -> Handled("deleteTaskHandler")
              [] r.method = "PUT"    -> Handled("updateTaskHandler")
              [] OTHER -> Response(405, "router"))
      [] r.path = "/api/v1/model" -> Handled("model")
      [] r.path = "/api/v1/stats" -> Handled("stats")
      [] OTHER -> Response(404, "router")

\* The handler main registers for "/api/".
setupRouter(env, r) ==
    IF basicAuth(env, r.header) # 0
    THEN Response(basicAuth(env, r.header), "basicAuth")
    ELSE apiV1(env, r)

CallRouter ==
    /\ unit.fn = "setupRouter" /\ ~unit.done
    /\ unit' = [fn |-> unit.fn, in |-> unit.in, done |-> TRUE,
                out |-> setupRouter(unit.in.env, unit.in.req)]
    /\ UNCHANGED mgrVars

\* ------------------------------------------------- the prompt endpoint
\* What RunPrompt or RunPromptAsTask returned to the handler: the text or
\* task id, and the error (ret = {} is the nil error).
TurnResults == {[out |-> o, ret |-> e] :
                   o \in {<<>>, <<"x">>}, e \in SUBSET {"call", "save"}}
\* A request of the prompt endpoint: whether AcquireSession found the
\* conversation, whether the body decodes, as_task, and what the turn
\* operation returns when it is reached.
PromptRequests == {[found |-> f, decodes |-> d, asTask |-> a, result |-> r] :
                      f \in BOOLEAN, d \in BOOLEAN, a \in BOOLEAN, r \in TurnResults}

\* postPromptHandler: the status and the body it writes.
postPromptHandler(q) ==
    IF ~q.found THEN [status |-> 404, key |-> "", value |-> <<>>]
    ELSE IF ~q.decodes THEN [status |-> 400, key |-> "", value |-> <<>>]
    ELSE IF q.asTask
         THEN IF q.result.ret # {}
              THEN [status |-> 500, key |-> "", value |-> <<>>]
              ELSE [status |-> 200, key |-> "task_id", value |-> q.result.out]
    ELSE [status |-> 200, key |-> "response", value |-> q.result.out]

CallPromptHandler ==
    /\ unit.fn = "postPromptHandler" /\ ~unit.done
    /\ unit' = [fn |-> unit.fn, in |-> unit.in, done |-> TRUE,
                out |-> postPromptHandler(unit.in)]
    /\ UNCHANGED mgrVars

\* ------------------------------------------------ the functions, one call each
InitUnit ==
    /\ InitManager
    /\ \/ unit \in {Call("SendPrompt", r) : r \in ClientReplies}
       \/ unit \in {Call("SendPromptStream", s) : s \in Streams}
       \/ unit \in {Call("generateNameFromPrompt", p) : p \in NamePrompts}
       \/ unit \in {Call("setupRouter", [env |-> e, req |-> r]) : e \in Envs, r \in Requests}
       \/ unit \in {Call("postPromptHandler", q) : q \in PromptRequests}

NextUnit ==
    \/ CallSendPrompt
    \/ CallSendPromptStream
    \/ CallGenerateName
    \/ CallRouter
    \/ CallPromptHandler

SpecUnit == InitUnit /\ [][NextUnit]_vars

\* ===================================================== call statistics
\* Goroutines that call RecordCall and Get on one Stats, concurrently.
Procs == {1, 2}
MaxCalls == 3
\* latency in nanoseconds, charsIn, charsOut
CallArgs == {[lat |-> 1500000, cin |-> 1, cout |-> 2], [lat |-> 700000, cin |-> 3, cout |-> 0]}
\* The fields in the order RecordCall updates them, and what it adds.
StatsFields == <<"calls", "lat", "cin", "cout">>
Added(args, f) == IF f = "calls" THEN 1 ELSE args[f]
ZeroStats == [calls |-> 0, lat |-> 0, cin |-> 0, cout |-> 0]

\* stats.New(), nobody calling; sum and n are the values and the number of
\* the calls of RecordCall that returned, waited says that a call returned
\* while another one was waiting for the lock.
NewStats ==
    [fn |-> "stats", mu |-> 0, s |-> ZeroStats,
     pc |-> [p \in Procs |-> "idle"], k |-> [p \in Procs |-> 1],
     tmp |-> [p \in Procs |-> 0], args |-> [p \in Procs |-> CHOOSE a \in CallArgs : TRUE],
     begun |-> 0, n |-> 0, sum |-> ZeroStats,
     last |-> "none", got |-> [calls |-> 0, avg |-> 0, cin |-> 0, cout |-> 0],
     before |-> ZeroStats, waited |-> FALSE]

InitStats == InitManager /\ unit = NewStats

\* time.Duration.Milliseconds
Milliseconds(d) == d \div 1000000

\* A mutex that never makes anybody wait.
muFreeAlways == TRUE

\* s.mu is not held.
muFree == unit.mu = 0

\* RecordCall is entered: the log line, before the lock.
RecordCallBegin(p, a) ==
    /\ unit.pc[p] = "idle" /\ unit.begun < MaxCalls
    /\ unit' = [unit EXCEPT !.pc[p] = "lock", !.args[p] = a, !.begun = @ + 1,
                            !.last = "begin"]
    /\ UNCHANGED mgrVars

\* s.mu.Lock()
RecordCallLock(p) ==
    /\ unit.pc[p] = "lock" /\ muFree
    /\ unit' = [unit EXCEPT !.pc[p] = "read", !.mu = p, !.k[p] = 1, !.last = "lock"]
    /\ UNCHANGED mgrVars

\* One statement of s.F++ / s.F += v: the read of the field.
RecordCallRead(p) ==
    /\ unit.pc[p] = "read"
    /\ unit' = [unit EXCEPT !.pc[p] = "write", !.tmp[p] = unit.s[StatsFields[unit.k[p]]],
                            !.last = "read"]
    /\ UNCHANGED mgrVars

\* The write of the field; after the last field the function returns.
RecordCallWrite(p) ==
    /\ unit.pc[p] = "write"
    /\ LET f == StatsFields[unit.k[p]] IN
       unit' = [unit EXCEPT !.s[f] = unit.tmp[p] + Added(unit.args[p], f),
                            !.pc[p] = IF unit.k[p] = Len(StatsFields) THEN "unlock" ELSE "read",
                            !.k[p] = IF unit.k[p] = Len(StatsFields) THEN 1 ELSE @ + 1,
                            !.last = "write"]
    /\ UNCHANGED mgrVars

\* defer s.mu.Unlock(), and the return.
RecordCallUnlock(p) ==
    /\ unit.pc[p] = "unlock"
    /\ unit' = [unit EXCEPT !.pc[p] = "idle", !.mu = 0, !.n = @ + 1,
                            !.sum = [f \in DOMAIN ZeroStats |-> @[f] + Added(unit.args[p], f)],
                            !.waited = @ \/ \E q \in Procs : unit.pc[q] = "lock",
                            !.last = "unlock"]
    /\ UNCHANGED mgrVars

\* Stats.Get, all of it under the lock.
Get ==
    /\ muFree
    /\ unit' = [unit EXCEPT
                  !.got = [calls |-> unit.s.calls,
                           avg   |-> IF unit.s.calls > 0
                                     THEN Milliseconds(unit.s.lat) \div unit.s.calls ELSE 0,
                           cin   |-> unit.s.cin,
                           cout  |-> unit.s.cout],
                  !.before = unit.s,
                  !.last = "Get"]
    /\ UNCHANGED mgrVars

NextStats ==
    \/ \E p \in Procs, a \in CallArgs : RecordCallBegin(p, a)
    \/ \E p \in Procs : RecordCallLock(p)
    \/ \E p \in Procs : RecordCallRead(p)
    \/ \E p \in Procs : RecordCallWrite(p)
    \/ \E p \in Procs : RecordCallUnlock(p)
    \/ Get

SpecStats == InitStats /\ [][NextStats]_vars

\* ========================================================== the scheduler
\* The seconds of the clock that names the output files.
Seconds == 0..1

RECURSIVE TrimLeft(_)
TrimLeft(s) == IF s # <<>> /\ IsSpace(Head(s)) THEN TrimLeft(Tail(s)) ELSE s

RECURSIVE TrimRight(_)
TrimRight(s) ==
    IF s # <<>> /\ IsSpace(s[Len(s)]) THEN TrimRight(SubSeq(s, 1, Len(s) - 1)) ELSE s

\* strings.TrimSpace replaced by the identity.
TrimSpaceNot(s) == s

\* strings.TrimSpace
TrimSpace(s) == TrimRight(TrimLeft(s))

\* strings.ReplaceAll(strings.ToLower(name), " ", "_")
dirName(name) ==
    [i \in 1..Len(name) |->
        IF name[i] = " " THEN "_" ELSE IF name[i] = "T" THEN "t" ELSE name[i]]

\* The prompt of a task as the template package sees it: text, the action
\* {{.Input}}, the action {{.Input.X}} (no such field of a string), and an
\* action that is not closed.
PromptOk     == <<"text", "{{.Input}}">>
PromptNoExec == <<"text", "{{.Input.X}}">>
PromptNoParse == <<"text", "{{">>

\* template.Parse succeeds
Parses(prompt) == \A i \in 1..Len(prompt) : prompt[i] # "{{"
\* template.Execute succeeds
Executes(prompt) == \A i \in 1..Len(prompt) : prompt[i] # "{{.Input.X}}"

Task(name, prompt) == [name |-> name, prompt |-> prompt]
Tasks == {Task(<<"T", " ", "t">>, PromptOk), Task(<<"t", "_", "t">>, PromptOk),
          Task(<<"o">>, PromptOk),
          Task(<<"T", " ", "t">>, PromptNoExec), Task(<<"T", " ", "t">>, PromptNoParse)}
TaskDirs == {dirName(t.name) : t \in Tasks}

\* What cmd.CombinedOutput returned: an error or not, and the output.
Outputs == {[err |-> e, output |-> o] :
               e \in BOOLEAN, o \in {<<>>, <<" ", "\n">>, <<" ", "d", "\n">>}}

\* What the file system does for saveOutput: all of it, MkdirAll fails (for
\* a directory that is not there), the file cannot be opened, or it is
\* created and the write fails.
IoOutcomes == {"ok", "nomkdir", "noopen", "nowrite"}

NoRun == [ran |-> FALSE, task |-> Task(<<>>, <<>>), err |-> FALSE, output |-> <<>>,
          io |-> "ok", reached |-> FALSE, wrote |-> 0, made |-> FALSE,
          changed |-> FALSE, grew |-> 0, at |-> 0]

\* files maps a directory and a second to "none", "whole" or "part".
NewScheduler ==
    [fn |-> "scheduler", now |-> 0, dirs |-> {},
     files |-> [d \in TaskDirs |-> [ts \in Seconds |-> "none"]],
     last |-> NoRun]

InitSched == InitManager /\ unit = NewScheduler

nFiles(f) == Cardinality({x \in TaskDirs \X Seconds : f[x[1]][x[2]] # "none"})

\* Manager.saveOutput: the directories and files after it, and whether it
\* returned nil.
saveOutput(dirs, files, t, now, io) ==
    LET d == dirName(t.name) IN
    IF io = "nomkdir" /\ d \notin dirs
    THEN [dirs |-> dirs, files |-> files, ok |-> FALSE]
    ELSE IF io = "noopen"
    THEN [dirs |-> dirs \cup {d}, files |-> files, ok |-> FALSE]
    ELSE IF io = "nowrite"
    THEN [dirs |-> dirs \cup {d}, files |-> [files EXCEPT ![d][now] = "part"], ok |-> FALSE]
    ELSE [dirs |-> dirs \cup {d}, files |-> [files EXCEPT ![d][now] = "whole"], ok |-> TRUE]

\* runTask reaches saveOutput
reachesSave(t, c) ==
    /\ ~c.err
    /\ TrimSpace(c.output) # <<>>
    /\ Parses(t.prompt)
    /\ Executes(t.prompt)

\* Manager.runTask
runTask(t, c, io) ==
    /\ unit.fn = "scheduler"
    /\ LET r == IF reachesSave(t, c)
                THEN saveOutput(unit.dirs, unit.files, t, unit.now, io)
                ELSE [dirs |-> unit.dirs, files |-> unit.files, ok |-> FALSE]
       IN unit' = [unit EXCEPT
                     !.dirs = r.dirs,
                     !.files = r.files,
                     !.last = [ran |-> TRUE, task |-> t, err |-> c.err, output |-> c.output,
                               io |-> io, reached |-> reachesSave(t, c),
                               wrote |-> IF r.ok THEN 1 ELSE 0,
                               made |-> r.dirs # unit.dirs,
                               changed |-> r.files # unit.files,
                               grew |-> nFiles(r.files) - nFiles(unit.files),
                               at |-> unit.now]]
    /\ UNCHANGED mgrVars

\* A second passes.
Tick ==
    /\ unit.fn = "scheduler"
    /\ unit.now + 1 \in Seconds
    /\ unit' = [unit EXCEPT !.now = @ + 1]
    /\ UNCHANGED mgrVars

NextSched ==
    \/ \E t \in Tasks, c \in Outputs, io \in IoOutcomes : runTask(t, c, io)
    \/ Tick

SpecSched == InitSched /\ [][NextSched]_vars

\* ============================== the hand-off channels of a streaming turn
\* The goroutines of one streaming request and the two channels between
\* them.  The producer is the protocol client: Client.SendPromptStream
\* (stats.go) and the mock of the tests, both called by the RunPromptStream of
\* session.go:152-194, which makes internalChan and closes it; or the
\* library's StreamMessage, called by the RunPromptStream of
\* session.go:463-560, which makes and closes the channel itself.
Producers == {"Client", "mock", "StreamMessage"}
\* the number of events the producer sends
StreamLength(c) == IF c = "mock" THEN {1} ELSE 0..MaxEvents
\* RunPromptStream makes internalChan itself
MakesChan(c) == c # "StreamMessage"
\* the producer closes the channel it sends on
ProducerCloses(c) == c # "Client"

\* prod: the producer; run: the goroutine of main.go:210-217 that calls
\* RunPromptStream and then closes eventChan; relay: the goroutine of
\* RunPromptStream; hnd: the handler's range loop.  ic and sink count the
\* calls of close on internalChan and eventChan; early says that eventChan
\* was closed before RunPromptStream returned, written counts the events
\* written to the websocket and lost says that a write failed.
NewHandoff(c, n) ==
    [fn |-> "handoff", client |-> c, left |-> n,
     prod |-> "send", run |-> IF MakesChan(c) THEN "call" ELSE "wait",
     relay |-> "recv", hnd |-> "range",
     ic |-> 0, sink |-> 0, early |-> FALSE, sentClosed |-> FALSE,
     appended |-> FALSE, ret |-> FALSE, saved |-> FALSE, panicked |-> FALSE,
     written |-> 0, lost |-> FALSE]

InitHandoff ==
    /\ InitManager
    /\ unit \in {NewHandoff(c, n) : c \in Producers, n \in 0..MaxEvents}
    /\ unit.left \in StreamLength(unit.client)

Handing == unit.fn = "handoff" /\ ~unit.panicked

\* close(ch) on a channel with n calls of close before: the second panics.
closePanics(n) == n > 0

\* The producer sends an event and the relay's range takes it.
ProducerSend ==
    /\ Handing
    /\ unit.prod = "send" /\ unit.left > 0 /\ unit.relay = "recv"
    /\ unit' = [unit EXCEPT !.left = @ - 1, !.relay = "send",
                            !.sentClosed = @ \/ unit.ic > 0,
                            !.panicked = unit.ic > 0]
    /\ UNCHANGED mgrVars

\* The producer is through: the mock and the library close the channel,
\* Client.SendPromptStream just returns.
ProducerReturn ==
    /\ Handing
    /\ unit.prod = "send" /\ unit.left = 0
    /\ unit' = [unit EXCEPT !.prod = "returned",
                            !.ic = IF ProducerCloses(unit.client) THEN @ + 1 ELSE @,
                            !.run = IF MakesChan(unit.client) THEN "close" ELSE @]
    /\ UNCHANGED mgrVars

\* session.go:175 close(internalChan)
CloseInternal ==
    /\ Handing
    /\ unit.run = "close"
    /\ unit' = [unit EXCEPT !.ic = @ + 1, !.run = "wait",
                            !.panicked = closePanics(unit.ic)]
    /\ UNCHANGED mgrVars

\* The relay's range loop ends on the closed channel: wg.Done.
RelayDone ==
    /\ Handing
    /\ unit.relay = "recv" /\ unit.ic > 0
    /\ unit' = [unit EXCEPT !.relay = "done"]
    /\ UNCHANGED mgrVars

\* `eventChan <- event` (session.go:170, 535) meets the receive of the
\* handler's range loop (main.go:219).
RelaySend ==
    /\ Handing
    /\ unit.relay = "send" /\ unit.hnd = "range"
    /\ unit' = [unit EXCEPT !.relay = "recv", !.hnd = "write",
                            !.sentClosed = @ \/ unit.sink > 0,
                            !.panicked = unit.sink > 0]
    /\ UNCHANGED mgrVars

\* conn.WriteJSON(event): on an error the handler returns (main.go:221-224).
WriteJSON(ok) ==
    /\ Handing
    /\ unit.hnd = "write"
    /\ unit' = [unit EXCEPT !.hnd = IF ok THEN "range" ELSE "returned",
                            !.written = IF ok THEN @ + 1 ELSE @,
                            !.lost = @ \/ ~ok]
    /\ UNCHANGED mgrVars

\* wg.Wait returns, and RecordCall.
RunPromptStreamWait ==
    /\ Handing
    /\ unit.run = "wait" /\ unit.relay = "done"
    /\ unit' = [unit EXCEPT !.run = "append"]
    /\ UNCHANGED mgrVars

\* The two appends to s.History.
RunPromptStreamAppend ==
    /\ Handing
    /\ unit.run = "append"
    /\ unit' = [unit EXCEPT !.run = "save", !.appended = TRUE]
    /\ UNCHANGED mgrVars

\* s.save and the return; the save fails when the file cannot be written.
RunPromptStreamSave(ok) ==
    /\ Handing
    /\ unit.run = "save"
    /\ unit' = [unit EXCEPT !.run = "closeSink", !.ret = TRUE, !.saved = ok]
    /\ UNCHANGED mgrVars

\* main.go:216 close(eventChan), and the deferred wg.Done.
CloseSink ==
    /\ Handing
    /\ unit.run = "closeSink"
    /\ unit' = [unit EXCEPT !.sink = @ + 1, !.run = "end",
                            !.early = @ \/ ~unit.ret,
                            !.panicked = closePanics(unit.sink)]
    /\ UNCHANGED mgrVars

\* The handler's range loop ends on the closed eventChan; wg.Wait.
HandlerWait ==
    /\ Handing
    /\ unit.hnd = "range" /\ unit.sink > 0
    /\ unit' = [unit EXCEPT !.hnd = "wait"]
    /\ UNCHANGED mgrVars

HandlerReturn ==
    /\ Handing
    /\ unit.hnd = "wait" /\ unit.run = "end"
    /\ unit' = [unit EXCEPT !.hnd = "returned"]
    /\ UNCHANGED mgrVars

NextHandoff ==
    \/ ProducerSend
    \/ ProducerReturn
    \/ CloseInternal
    \/ RelayDone
    \/ RelaySend
    \/ \E ok \in BOOLEAN : WriteJSON(ok)
    \/ RunPromptStreamWait
    \/ RunPromptStreamAppend
    \/ \E ok \in BOOLEAN : RunPromptStreamSave(ok)
    \/ CloseSink
    \/ HandlerWait
    \/ HandlerReturn

SpecHandoff == InitHandoff /\ [][NextHandoff]_vars

\* Every goroutine that can take a step takes one in the end.
LiveHandoff ==
    /\ SpecHandoff
    /\ WF_vars(ProducerSend) /\ WF_vars(ProducerReturn) /\ WF_vars(CloseInternal)
    /\ WF_vars(RelayDone) /\ WF_vars(RelaySend)
    /\ WF_vars(\E ok \in BOOLEAN : WriteJSON(ok))
    /\ WF_vars(RunPromptStreamWait) /\ WF_vars(RunPromptStreamAppend)
    /\ WF_vars(\E ok \in BOOLEAN : RunPromptStreamSave(ok)) /\ WF_vars(CloseSink)
    /\ WF_vars(HandlerWait) /\ WF_vars(HandlerReturn)

\* ===================================== AcquireSession, statement by statement
\* Two goroutines call AcquireSession and ListConversations at the same
\* time.  file says what <id>.json is: a record, a file that does not
\* decode, or no file.  cache is m.sessions, an instance being a number
\* from 1 on in the order of the loads.  loads, nret and insts are history
\* variables: the loads of each id, the calls that returned an instance of
\* it and the instances they returned; met says that a call waited for
\* the lock while another one was loading the same id.
FileKinds == {"record", "undecodable", "none"}

NewAcquire(f) ==
    [fn |-> "acquire", file |-> f, mu |-> 0, cache |-> [id \in Ids |-> 0],
     pc |-> [p \in Procs |-> "idle"], id |-> [p \in Procs |-> ""],
     todo |-> [p \in Procs |-> <<>>], listing |-> [p \in Procs |-> FALSE],
     inst |-> [p \in Procs |-> 0],
     begun |-> 0, loads |-> [id \in Ids |-> 0], nret |-> [id \in Ids |-> 0],
     insts |-> [id \in Ids |-> {}], met |-> FALSE]

InitAcquire ==
    /\ InitManager
    /\ unit \in {NewAcquire(f) : f \in [Ids -> FileKinds]}

\* A mutex that never makes anybody wait.
mFreeAlways == TRUE

\* m.mu is not held.
mFree == unit.mu = 0

\* A handler calls AcquireSession(id).
AcquireCall(p, id) ==
    /\ unit.fn = "acquire"
    /\ unit.pc[p] = "idle" /\ unit.begun < MaxCalls
    /\ unit' = [unit EXCEPT !.pc[p] = "lock", !.id[p] = id, !.listing[p] = FALSE,
                            !.begun = @ + 1]
    /\ UNCHANGED mgrVars

\* ListConversations is called: os.ReadDir gives the files, sorted by name.
ListCall(p) ==
    /\ unit.fn = "acquire"
    /\ unit.pc[p] = "idle" /\ unit.begun < MaxCalls
    /\ unit' = [unit EXCEPT !.pc[p] = "next", !.listing[p] = TRUE,
                            !.todo[p] = SelectSeq(SortedIds,
                                           LAMBDA id : unit.file[id] # "none"),
                            !.begun = @ + 1]
    /\ UNCHANGED mgrVars

\* The loop of ListConversations: AcquireSession for the next entry, or the
\* return after the last.
ListNext(p) ==
    /\ unit.fn = "acquire"
    /\ unit.pc[p] = "next"
    /\ unit' = IF unit.todo[p] = <<>>
               THEN [unit EXCEPT !.pc[p] = "idle", !.listing[p] = FALSE]
               ELSE [unit EXCEPT !.pc[p] = "lock", !.id[p] = Head(unit.todo[p]),
                                 !.todo[p] = Tail(@)]
    /\ UNCHANGED mgrVars

\* m.mu.Lock()
AcquireLock(p) ==
    /\ unit.fn = "acquire"
    /\ unit.pc[p] = "lock" /\ mFree
    /\ unit' = [unit EXCEPT !.pc[p] = "lookup", !.mu = p]
    /\ UNCHANGED mgrVars

\* `if session, ok := m.sessions[sessionID]; ok`: the cached instance is
\* the result.
AcquireLookup(p) ==
    /\ unit.fn = "acquire"
    /\ unit.pc[p] = "lookup"
    /\ LET hit == unit.cache[unit.id[p]] # 0 IN
       unit' = [unit EXCEPT !.pc[p] = IF hit THEN "unlock" ELSE "load",
                            !.inst[p] = IF hit THEN unit.cache[unit.id[p]] ELSE 0]
    /\ UNCHANGED mgrVars

\* m.load(sessionID): a new instance, or the error.
AcquireLoad(p) ==
    /\ unit.fn = "acquire"
    /\ unit.pc[p] = "load"
    /\ LET id == unit.id[p]
           ok == unit.file[id] = "record"
           n  == unit.loads["a"] + unit.loads["b"]
       IN  unit' = [unit EXCEPT
                      !.pc[p] = IF ok THEN "insert" ELSE "unlock",
                      !.inst[p] = IF ok THEN n + 1 ELSE 0,
                      !.loads[id] = IF ok THEN @ + 1 ELSE @,
                      !.met = @ \/ (ok /\ \E q \in Procs \ {p} :
                                      unit.pc[q] = "lock" /\ unit.id[q] = id)]
    /\ UNCHANGED mgrVars

\* `m.sessions[sessionID] = session`
AcquireInsert(p) ==
    /\ unit.fn = "acquire"
    /\ unit.pc[p] = "insert"
    /\ unit' = [unit EXCEPT !.pc[p] = "unlock",
                            !.cache[unit.id[p]] = unit.inst[p]]
    /\ UNCHANGED mgrVars

\* The deferred m.mu.Unlock() and the return.
AcquireUnlock(p) ==
    /\ unit.fn = "acquire"
    /\ unit.pc[p] = "unlock"
    /\ LET id == unit.id[p]
           o  == unit.inst[p]
       IN  unit' = [unit EXCEPT
                      !.pc[p] = IF unit.listing[p] THEN "next" ELSE "idle",
                      !.mu = 0,
                      !.inst[p] = 0,
                      !.nret[id] = IF o # 0 THEN @ + 1 ELSE @,
                      !.insts[id] = IF o # 0 THEN @ \cup {o} ELSE @]
    /\ UNCHANGED mgrVars

NextAcquire ==
    \/ \E p \in Procs, id \in Ids : AcquireCall(p, id)
    \/ \E p \in Procs : ListCall(p)
    \/ \E p \in Procs : ListNext(p)
    \/ \E p \in Procs : AcquireLock(p)
    \/ \E p \in Procs : AcquireLookup(p)
    \/ \E p \in Procs : AcquireLoad(p)
    \/ \E p \in Procs : AcquireInsert(p)
    \/ \E p \in Procs : AcquireUnlock(p)

SpecAcquire == InitAcquire /\ [][NextAcquire]_vars

TypeOK ==
    /\ Len(objs) <= MaxObj
    /\ Len(rec) = Len(objs)
    /\ \A id \in Ids : sessions[id] \in 0..Len(objs)
    /\ \A t \in Turns : tr[t].s \in 0..Len(objs)
    /\ mgr.pc \in {"idle", "save", "remove"}
    /\ ans.live \subseteq Ids


\* ================================================================ claims
Relaying   == {"recv", "send"}
AfterRelay == {"stats", "namechk", "nameset", "appU", "appU2", "appA", "appA2",
               "save", "done"}
Objs == 1..Len(objs)

UserLines(h)  == {i \in 1..Len(h) : h[i].pfx = UserPrefix}
AgentLines(h) == {i \in 1..Len(h) : h[i].pfx = GeminiPrefix}

\* C1: every event the relay of a streaming turn has consumed has been
\* delivered to the sink, except the one it is offering to the sink right
\* now (so none is dropped: the relay blocks on the sink, it never skips).
C1_ConsumedIsDelivered ==
    \A t \in Turns :
        tr[t].mode = "stream" /\ tr[t].pc # "send" => obs[t].nDeliv = obs[t].nCons

\* C2: an invocation of RunPrompt, RunPromptAsTask or RunPromptStream that
\* has returned has appended exactly one User line and one Agent line and
\* has attempted exactly one save, whether or not the call or stream failed.
C2_OneTurnOneRecord ==
    \A t \in Turns :
        tr[t].pc = "done" =>
            obs[t].nUser = 1 /\ obs[t].nAgent = 1 /\ obs[t].nSave = 1

\* C3: an invocation that has returned has called RecordCall exactly once,
\* and for the synchronous and streaming modes the recorded output count is
\* the length of the response text.
C3_OneRecordCall ==
    \A t \in Turns :
        tr[t].pc = "done" =>
            /\ obs[t].nStats = 1
            /\ tr[t].mode \in {"sync", "stream"} => obs[t].outRec = Len(tr[t].text)

\* C4: during and after a streaming turn the record's ContextID and TaskID
\* are those of the last Message, Task, ArtifactUpdate or TaskStatusUpdate
\* event consumed so far, and those it had when the stream was opened if
\* there was none; an unrecognised event changes neither.
C4_ContinuationFollowsLastEvent ==
    \A t \in Turns :
        tr[t].mode = "stream" /\ tr[t].pc \in Relaying \cup AfterRelay =>
            /\ objs[tr[t].s].ctx = obs[t].tabCtx
            /\ objs[tr[t].s].task = obs[t].tabTask

\* an unrecognised event, consumed second, has left the identifiers of the
\* first event in place
C4_Witness ==
    \E t \in Turns :
        /\ tr[t].pc = "send" /\ tr[t].ev.kind = "other" /\ obs[t].nCons = 2
        /\ objs[tr[t].s].ctx = "c1" /\ objs[tr[t].s].task = "t1"

\* C5 as claimed: the text a streaming turn accumulates, and writes as its
\* Agent line, is the concatenation in arrival order of the text parts of
\* every Message event and of the embedded message of every
\* TaskStatusUpdate event that has one.
C5_TextIsTableText ==
    \A t \in Turns :
        tr[t].mode = "stream" /\ tr[t].pc \in AfterRelay =>
            /\ tr[t].text = obs[t].tabText
            /\ obs[t].nAgent = 1 => obs[t].agentTxt = obs[t].tabText

\* C5 as amended: the same, where the embedded message of a
\* TaskStatusUpdate counts only when its kind is "message"; Task,
\* ArtifactUpdate and unrecognised events contribute nothing.
C5_TextIsMessageText ==
    \A t \in Turns :
        tr[t].mode = "stream" /\ tr[t].pc \in AfterRelay =>
            /\ tr[t].text = obs[t].amText
            /\ obs[t].nAgent = 1 => obs[t].agentTxt = obs[t].amText

\* a turn has written its Agent line from text that arrived after an
\* artifact update with LastChunk set
C5_Witness ==
    \E t \in Turns :
        tr[t].pc = "done" /\ obs[t].afterFinal /\ obs[t].nAgent = 1
        /\ obs[t].agentTxt # <<>>

\* C6: a streaming turn whose stream failed after some events has forwarded
\* them, written the text accumulated from them as its Agent line, saved
\* once, and returns the transport error.
C6_MidStreamFailureReported ==
    \A t \in Turns :
        /\ tr[t].pc = "done" /\ tr[t].mode = "stream"
        /\ obs[t].failed = "mid" /\ obs[t].nCons > 0
        =>  /\ obs[t].nDeliv = obs[t].nCons
            /\ obs[t].agentTxt = tr[t].text
            /\ objs[tr[t].s].ctx = obs[t].tabCtx
            /\ objs[tr[t].s].task = obs[t].tabTask
            /\ obs[t].nSave = 1
            /\ "call" \in tr[t].ret

\* C7: a turn appends its lines only after its call or stream is over and
\* saves only after both lines are appended; so the file a turn wrote holds
\* that turn's User line directly followed by its Agent line, and no file
\* holds an Agent line without the User line of the same turn before it.
C7_SaveAfterAppendAfterCall ==
    /\ \A t \in Turns :
        /\ obs[t].nUser + obs[t].nAgent > 0 => tr[t].pc \in AfterRelay
        /\ obs[t].nSave > 0 => obs[t].nUser = 1 /\ obs[t].nAgent = 1
    /\ \A id \in Ids :
        disk[id].present =>
            LET h == disk[id].s.hist IN
            /\ disk[id].by \in Turns =>
                 \E i \in 1..(Len(h) - 1) :
                    /\ h[i].pfx = UserPrefix /\ h[i].turn = disk[id].by
                    /\ h[i + 1].pfx = GeminiPrefix /\ h[i + 1].turn = disk[id].by
            /\ \A j \in AgentLines(h) :
                 j > 1 /\ h[j - 1].pfx = UserPrefix /\ h[j - 1].turn = h[j].turn

\* the second turn of a conversation has saved its four-line history
C7_Witness ==
    \E id \in Ids :
        disk[id].present /\ disk[id].by = 2 /\ Len(disk[id].s.hist) = 4

\* C8: while no turn is in flight on a record its history has even length,
\* and it holds as many User lines and as many Agent lines as turns have
\* returned on the conversation.
C8_HistoryCountsTurns ==
    \A o \in Objs :
        (\A t \in Turns : InFlight(t) => tr[t].s # o) =>
            /\ Len(objs[o].hist) % 2 = 0
            /\ Cardinality(UserLines(objs[o].hist)) = rec[o].returned
            /\ Cardinality(AgentLines(objs[o].hist)) = rec[o].returned

\* in the history of instance o every User line is directly followed by the
\* Agent line of the same turn, or is the last line while that turn is
\* about to append its Agent line; and every Agent line follows its User line
Paired(o) ==
    LET h == objs[o].hist IN
    /\ \A i \in UserLines(h) :
         IF i < Len(h)
         THEN h[i + 1].pfx = GeminiPrefix /\ h[i + 1].turn = h[i].turn
         ELSE tr[h[i].turn].s = o /\ tr[h[i].turn].pc \in {"appA", "appA2"}
    /\ \A j \in AgentLines(h) :
         j > 1 /\ h[j - 1].pfx = UserPrefix /\ h[j - 1].turn = h[j].turn

\* C9 as claimed: in every history each turn's User line is directly
\* followed by the Agent line of the same turn, also when turns overlap.
C9_TurnsAtomic == \A o \in Objs : Paired(o)

\* C9 as amended: the same for every record on which no two turns have been
\* in flight at the same time.
C9_TurnsAtomicUnlessOverlapped == \A o \in Objs : ~rec[o].raced => Paired(o)

\* two turns, one after the other, have completed on a record
C9_Witness ==
    \E o \in Objs : ~rec[o].raced /\ Len(objs[o].hist) = 4 /\ rec[o].saved = 2

\* C10 as claimed: once a turn has returned on a record, no step changes
\* the record's name.
C10_NameFixedAfterFirstTurn ==
    [][\A o \in Objs : rec[o].returned > 0 => objs'[o].name = objs[o].name]_vars

\* C10 as amended: the name changes only in the naming step of a turn that
\* found the history empty and that began before any turn had returned
\* with its lines appended.
C10_NameSetOnlyByEarlyTurn ==
    [][\A o \in Objs :
          objs'[o].name # objs[o].name =>
              \E t \in Turns :
                  /\ tr[t].s = o /\ tr[t].pc = "nameset" /\ tr'[t].pc # "nameset"
                  /\ obs[t].sawEmpty /\ ~obs[t].late]_vars

\* a turn that began after a completed turn has passed the name test
\* without naming the conversation after its own prompt
C10_Witness ==
    \E t \in Turns :
        /\ obs[t].late /\ tr[t].pc = "appU"
        /\ objs[tr[t].s].name # generateNameFromPrompt(tr[t].prompt)

\* the agent call or the stream of turn t failed
CallFailed(t) == tr[t].callErr \/ obs[t].failed = "mid"

\* C11: a turn that has returned reports no error exactly when its agent
\* call or stream and its save both succeeded; when the call failed and the
\* save succeeded it reports the call's error and returns the text computed.
C11_NilErrorIffBothSucceeded ==
    \A t \in Turns :
        tr[t].pc = "done" =>
            /\ tr[t].ret = {} <=> (~CallFailed(t) /\ ~obs[t].saveErr)
            /\ CallFailed(t) /\ ~obs[t].saveErr =>
                   /\ "call" \in tr[t].ret
                   /\ tr[t].mode # "stream" => tr[t].out = tr[t].text

\* C12: a turn in which the agent call or stream failed and the save failed
\* too returns an error that reports both failures.
C12_BothFailuresReported ==
    \A t \in Turns :
        tr[t].pc = "done" /\ CallFailed(t) /\ obs[t].saveErr =>
            tr[t].ret = {"call", "save"}

\* the two lines turn t appends
TurnLines(t) ==
    << Line(UserPrefix, tr[t].prompt, t),
       Line(GeminiPrefix, agentText(tr[t].mode, tr[t].text), t) >>

C15_TaskPlaceholderLine ==
    \A t \in Turns :
        tr[t].pc = "done" /\ tr[t].mode = "task" /\ obs[t].reply.res = "task" =>
            /\ objs[tr[t].s].hist =
                 obs[t].h0 \o << Line(UserPrefix, tr[t].prompt, t),
                                 Line(GeminiPrefix,
                                      TaskOpen \o obs[t].reply.id \o TaskClose, t) >>
            /\ tr[t].out = obs[t].reply.id
            /\ obs[t].nStats = 1 /\ obs[t].outRec = 0

\* RunPromptAsTask has returned the identifier of the task the agent made
C15_Witness ==
    \E t \in Turns :
        /\ tr[t].pc = "done" /\ tr[t].mode = "task" /\ obs[t].reply.res = "task"
        /\ tr[t].out # <<>> /\ tr[t].ret = {}

\* ------------------------------------------------------------------ C14
\* C14: when a turn has completed with a successful save, no other turn
\* being in flight on the record, the file of the conversation loads, and
\* loading it (what acquire does once the cache is cleared) gives a record
\* whose history, name, working directory and continuation identifiers are
\* those of the in-memory record at the end of the turn.
C14_RoundTrip ==
    \A t \in Turns :
        (tr[t].pc = "done" /\ obs[t].nSave = 1 /\ ~obs[t].saveErr)
            => LET s == objs[tr[t].s] IN
               /\ CanLoad(s.id)
               /\ load(s.id) = s

\* ------------------------------------------------------------------ C16
\* the identifiers of a listing, and a listing without repeated identifier
ListIds(l) == { l[i].id : i \in 1..Len(l) }
OnePerId(l) == Cardinality(ListIds(l)) = Len(l)

\* ListConversations runs right after a successful CreateSession of a
\* conversation that is the only one of the store and that no turn has
\* recorded to yet
ListsRightAfterCreate ==
    /\ ListConversations
    /\ ans.op = "create" /\ ans.ok
    /\ dirEntries(disk) = <<ans.id>>
    /\ objs[ans.obj].hist = <<>>

\* C16 as stated: a listing right after a successful createSession(id, wd)
\* on an empty store is the one entry (id, "New Conversation"), and every
\* listing has exactly one entry for each conversation created and not
\* deleted since.
C16_ListIsCreatedNotDeleted ==
    [][ /\ ListsRightAfterCreate
            => ans'.list = <<[id |-> ans.id, name |-> NewConversationName]>>
        /\ ListConversations
            => (ListIds(ans'.list) = ans.live /\ OnePerId(ans'.list)) ]_vars

\* C16 amended: a listing right after a successful createSession(id, wd)
\* on an empty store is the one entry (id, "New Conversation"), and every
\* listing has exactly one entry for each conversation created and not
\* deleted since that is cached or whose file can be loaded: a conversation
\* whose file cannot be read and that is not cached is left out.
C16_ListIsCreatedAndReadable ==
    [][ /\ ListsRightAfterCreate
            => ans'.list = <<[id |-> ans.id, name |-> NewConversationName]>>
        /\ ListConversations
            => /\ ListIds(ans'.list)
                    = { id \in ans.live : sessions[id] # 0 \/ CanLoad(id) }
               /\ OnePerId(ans'.list) ]_vars

\* a listing that holds a conversation still named "New Conversation" and
\* leaves out one that was created and not deleted
C16_Witness ==
    /\ ans.op = "list"
    /\ \E i \in 1..Len(ans.list) : ans.list[i].name = NewConversationName
    /\ ans.live \ ListIds(ans.list) # {}

\* ------------------------------------------------------------------ C17
\* C17: while no delete of id and no clearing of the cache has come after
\* the last successful createSession(id), the cache holds for id the very
\* instance that createSession made, and an acquire(id) succeeds and
\* returns that instance, however many acquires, listings and turns came
\* before it.
C17_AcquireReturnsCreatedInstance ==
    /\ \A id \in Ids : ans.made[id] # 0 => sessions[id] = ans.made[id]
    /\ (ans.op = "acquire" /\ ans.made[ans.id] # 0)
          => (ans.ok /\ ans.obj = ans.made[ans.id])

\* an acquire returned the instance that createSession made and found in
\* it the two lines that a turn had written
C17_Witness ==
    /\ ans.op = "acquire"
    /\ ans.made[ans.id] # 0
    /\ ans.obj = ans.made[ans.id]
    /\ Len(ans.seen) = 2

\* ------------------------------------------------------------------ C18
\* C18: a deleteSession(id) whose os.Remove removes the file or finds none
\* succeeds, and when deleteSession(id) has succeeded, no turn on id being
\* in flight, the cache holds no entry for id, the file of id is gone, a
\* listing does not contain id and acquire(id) fails.
C18_DeleteRemovesEntryAndFile ==
    [][ \A fails \in BOOLEAN :
          DeleteSessionRemove(fails)
            => LET id == mgr.id
                   l  == listFrom(dirEntries(disk'), sessions', objs', disk').list
               IN  /\ ~fails => ans'.ok
                   /\ ans'.ok =>
                         /\ sessions'[id] = 0
                         /\ ~disk'[id].present
                         /\ id \notin ListIds(l)
                         /\ ~(sessions'[id] # 0
                                \/ (disk'[id].present /\ ~disk'[id].bad)) ]_vars

\* a deleteSession that found no file has succeeded
C18_Witness == ans.op = "delete" /\ ans.ok /\ ~ans.had

\* ------------------------------------------------------------------ C19
\* C19: a listConversations changes no durable file and no history, name,
\* working directory or continuation identifier of a record that exists,
\* and a second listConversations called right after it returns the same
\* listing.
C19_ListReadOnlyIdempotent ==
    [][ ListConversations
          => /\ disk' = disk
             /\ \A o \in 1..Len(objs) : objs'[o] = objs[o]
             /\ listFrom(dirEntries(disk'), sessions', objs', disk').list
                    = ans'.list ]_vars

\* a listing of two conversations, one of them named by a turn
C19_Witness ==
    /\ ans.op = "list"
    /\ Len(ans.list) = 2
    /\ \E i \in 1..2 : ans.list[i].name # NewConversationName

\* ------------------------------------------------------------------ C20
\* C20: the lock of the cache is never held while a disk read, a disk
\* write or a file removal of a manager operation is in progress: no
\* operation is ever between its Lock and its Unlock with its save or its
\* os.Remove still to end.
C20_LockNotHeldAcrossIO ==
    ~(LockHeld /\ mgr.pc \in {"save", "remove"})

\* ------------------------------------------------------------------ C22
\* the turn has made its call to the agent
Called(t) == tr[t].pc \notin {"idle", "call", "open", "notfound", "gone"}

\* C22: every call to the agent made for a record that holds a continuation
\* context (set by a streaming turn before) carries that continuation
\* context, whatever the mode of the call, and a streaming call carries the
\* continuation task the record holds as well.
C22_ContinuationEchoed ==
    \A t \in Turns :
        (Called(t) /\ obs[t].ctx0 # "")
            => /\ obs[t].sentCtx = obs[t].ctx0
               /\ tr[t].mode = "stream" => obs[t].sentTask = obs[t].task0

\* ------------------------------------------------------------------ C27
\* the entries ReadDir gives whose acquire fails: the file cannot be loaded
\* and the cache holds no instance
FailingEntries == { id \in Ids : disk[id].present /\ disk[id].bad /\ sessions[id] = 0 }

\* C27: a listConversations over entries some of which cannot be loaded
\* returns without error, with exactly one entry, identifier and name of the
\* acquired record, for each entry that can be acquired; it skips each entry
\* whose load fails and puts no instance for it into the cache.
C27_ListSkipsFailingEntries ==
    [][ ListConversations
          => /\ ans'.ok
             /\ OnePerId(ans'.list)
             /\ ListIds(ans'.list)
                  = { id \in Ids : disk[id].present } \ FailingEntries
             /\ \A i \in 1..Len(ans'.list) :
                    ans'.list[i] = listEntry(objs'[sessions'[ans'.list[i].id]])
             /\ \A id \in FailingEntries : sessions'[id] = 0 ]_vars

\* a listing that returned one entry and skipped another one whose file
\* cannot be loaded
C27_Witness ==
    /\ ans.op = "list"
    /\ Len(ans.list) = 1
    /\ FailingEntries \ ListIds(ans.list) # {}

\* ------------------------------------------------------------------ C28
\* C28 as stated: the collection listConversations returns is never null,
\* and for an empty result the list endpoint answers with an empty array.
C28_ListNeverNull ==
    ans.op = "list"
        => /\ ~ans.isNil
           /\ ans.list = <<>> => ans.body = [null |-> FALSE, items |-> <<>>]

\* C28 amended: the slice ListConversations returns is nil exactly when it
\* has no entry (the store is empty or no entry loads); the list endpoint
\* never answers null: it answers with an array of the entries, the empty
\* array when there is none.
C28_EndpointNeverNull ==
    ans.op = "list"
        => /\ ans.isNil <=> ans.list = <<>>
           /\ ~ans.body.null
           /\ Len(ans.body.items) = Len(ans.list)
           /\ ans.list = <<>> => ans.body = [null |-> FALSE, items |-> <<>>]

\* a listing of a store whose only entry fails to load: a nil slice that the
\* endpoint answered with the empty array
C28_Witness ==
    /\ ans.op = "list"
    /\ ans.isNil
    /\ FailingEntries # {}
    /\ ans.body = [null |-> FALSE, items |-> <<>>]

\* ------------------------------------------------------------------ C21
\* turn t is in flight on a conversation other than b
SuspendedElsewhere(t, b) == ~crashed /\ InFlight(t) /\ objs[tr[t].s].id # b

\* turn u may be the next turn to begin
NextToBegin(u) == tr[u].pc = "idle" /\ \A v \in Turns : v < u => tr[v].pc # "idle"

\* C21: while a turn on a conversation is in flight, at whichever point it
\* waits, nothing keeps an operation on another conversation b from its
\* next step: with the lock free, acquire, createSession, deleteSession,
\* listConversations and the start of a turn on b can be taken; a
\* createSession or deleteSession that holds the lock can end; and a turn in
\* flight on b can take its next step.  (The bounds on the instances are
\* the model's.)
C21_DistinctConversationsNeverBlock ==
    \A t \in Turns, b \in Ids :
        SuspendedElsewhere(t, b) =>
            /\ (mgr.pc = "idle" /\ Len(objs) < MaxObj)
                  => /\ ENABLED AcquireSession(b)
                     /\ ENABLED DeleteSession(b)
                     /\ ENABLED CreateSession(b, <<"/">>)
                     /\ ENABLED ListConversations
                     /\ \A u \in Turns : NextToBegin(u)
                            => ENABLED BeginTurn(u, b, "sync", <<"h","i">>)
            /\ mgr.pc = "save" => ENABLED CreateSessionSave("ok")
            /\ mgr.pc = "remove" => ENABLED DeleteSessionRemove(FALSE)
            /\ \A u \in Turns :
                  (InFlight(u) /\ objs[tr[u].s].id = b) => ENABLED StepOf(u)

\* a turn on b has run to its end while the turn on a that began before it
\* still waits for its sink
C21_Witness ==
    /\ tr[1].pc = "send" /\ objs[tr[1].s].id = "a"
    /\ tr[2].pc = "done" /\ objs[tr[2].s].id = "b"
    /\ obs[2].nSave = 1

\* ------------------------------------------------------------------ C24
\* the reply has a non-empty text part of an agent message in its history
HasAgentText(h) ==
    \E i \in 1..Len(h) :
        /\ h[i].role = "agent"
        /\ \E j \in 1..Len(h[i].parts) :
              h[i].parts[j].kind = "text" /\ h[i].parts[j].text # <<>>

\* the reply that was read holds no text content
NoTextContent(r) ==
    CASE r.kind = "task" -> ~HasAgentText(r.history)
      [] r.kind = "message" ->
           ~\E j \in 1..Len(r.message.parts) :
               r.message.parts[j].kind = "text" /\ r.message.parts[j].text # <<>>
      [] OTHER -> TRUE

\* C24: SendPrompt returns an error whenever the reply holds no text content
\* (a task reply without a non-empty agent text part, a message reply without
\* a non-empty text part, a reply of another kind) and whenever the status is
\* not 200, and every error comes with the empty text.
C24_NoTextIsAnError ==
    Ran("SendPrompt") =>
        /\ (unit.in.post /\ unit.in.status = 200 /\ unit.in.json /\ NoTextContent(unit.in))
              => unit.out.err # ""
        /\ (unit.in.post /\ unit.in.status # 200) => unit.out.err # ""
        /\ unit.out.err # "" => unit.out.text = <<>>

\* ------------------------------------------------------------------ C23
\* line i of the stream is a record: a data line whose JSON can be read
IsRecord(l) == l.data /\ l.json

\* C23: every record of a stream that was read to its end surfaces as an
\* event on the channel, and a record of a kind other than message and
\* status-update surfaces as an event of kind unknown.
C23_EveryRecordSurfaces ==
    (Ran("SendPromptStream") /\ unit.out.err = "") =>
        \A i \in 1..Len(unit.in.lines) :
            IsRecord(unit.in.lines[i]) =>
                \E k \in 1..Len(unit.out.events) :
                    /\ unit.out.events[k].of = i
                    /\ unit.in.lines[i].kind \notin {"message", "status-update"}
                          => unit.out.events[k].kind = "unknown"

\* ------------------------------------------------------------------ C25
\* the number of characters of a string of bytes
Runes(s) == Cardinality({i \in 1..Len(s) : ~IsContinuation(s[i])})

RECURSIVE firstRunes(_, _)
\* the first n characters of a string of bytes
firstRunes(s, n) ==
    IF s = <<>> THEN <<>>
    ELSE IF IsContinuation(Head(s)) THEN <<Head(s)>> \o firstRunes(Tail(s), n)
    ELSE IF n = 0 THEN <<>>
    ELSE <<Head(s)>> \o firstRunes(Tail(s), n - 1)

\* the reference: the first five tokens joined by single spaces, cut to the
\* first 50 characters
NameReference(p) ==
    LET words == Fields(p)
        first == SubSeq(words, 1, IF Len(words) < MaxNameWords THEN Len(words) ELSE MaxNameWords)
    IN  firstRunes(Join(first, <<" ">>), MaxNameLen)

\* C25: the derived name is the reference; it has at most 50 characters and
\* at most five tokens, a prompt of at most five tokens that fit is returned
\* with its whitespace normalised, and a prompt without tokens gives the
\* empty name.
C25_NameIsReference ==
    Ran("generateNameFromPrompt") =>
        /\ unit.out = NameReference(unit.in)
        /\ Runes(unit.out) <= MaxNameLen
        /\ Len(Fields(unit.out)) <= MaxNameWords
        /\ (Len(Fields(unit.in)) <= MaxNameWords
              /\ Runes(Join(Fields(unit.in), <<" ">>)) <= MaxNameLen)
              => unit.out = Join(Fields(unit.in), <<" ">>)
        /\ Fields(unit.in) = <<>> => unit.out = <<>>

\* ------------------------------------------------------------------ C29
\* both credentials of the server are set
Configured(env) == env.user # <<>> /\ env.pass # <<>>

\* the header is "Basic " followed by a token that decodes to user:pass
Carries(env, header) ==
    /\ Len(header) >= Len(Basic) + 1
    /\ SubSeq(header, 1, Len(Basic) + 1) = Basic \o <<" ">>
    /\ DecodeString(SubSeq(header, Len(Basic) + 2, Len(header)))
          = env.user \o <<Colon>> \o env.pass

\* C29: for every request under /api/, nothing behind basicAuth answers (no
\* handler, not even the router's own 404 and 405) unless the server is
\* configured and the Authorization header carries its user and password;
\* the answer is 500 when the server is not configured, and 401 when it is
\* and the header does not carry the credentials.
C29_ApiBehindBasicAuth ==
    Ran("setupRouter") =>
        /\ unit.out.by # "basicAuth"
              => (Configured(unit.in.env) /\ Carries(unit.in.env, unit.in.req.header))
        /\ ~Configured(unit.in.env) => unit.out = Response(500, "basicAuth")
        /\ (Configured(unit.in.env) /\ ~Carries(unit.in.env, unit.in.req.header))
              => unit.out = Response(401, "basicAuth")

\* a prompt stream request with the configured user and another password was
\* answered 401
C29_Witness ==
    /\ Ran("setupRouter")
    /\ unit.in.req.path = "/api/v1/conversations/c/prompt/stream"
    /\ unit.in.req.method = "POST"
    /\ Configured(unit.in.env)
    /\ unit.in.req.header = Basic \o <<" ", "d", "T", "p", "4">>
    /\ unit.out = Response(401, "basicAuth")

\* ------------------------------------------------------------------ C26
\* no call of RecordCall is between its entry and its return
NoCallInFlight == \A p \in Procs : unit.pc[p] = "idle"

\* C26: whenever no RecordCall is in flight, the counters are the number and
\* the sums of the calls that returned; and a Get that has just returned
\* left every counter as it was and reported the counters, with the average
\* latency in milliseconds: the cumulative latency divided by the number of
\* calls, 0 when there was none.
C26_NoLostUpdate ==
    unit.fn = "stats" =>
        /\ NoCallInFlight => (unit.s = unit.sum /\ unit.s.calls = unit.n)
        /\ unit.last = "Get" =>
              /\ unit.s = unit.before
              /\ unit.got.calls = unit.s.calls
              /\ unit.got.cin = unit.s.cin /\ unit.got.cout = unit.s.cout
              /\ unit.got.avg = IF unit.s.calls = 0 THEN 0
                                ELSE Milliseconds(unit.s.lat) \div unit.s.calls

\* three calls returned, one of which waited for the lock while another
\* goroutine was updating the counters, and Get reports them
C26_Witness ==
    /\ unit.fn = "stats" /\ unit.last = "Get" /\ NoCallInFlight
    /\ unit.waited
    /\ unit.n = MaxCalls
    /\ unit.got.calls = MaxCalls /\ unit.got.avg = 1

\* ------------------------------------------------------------------ C30
\* the data command of the last run succeeded with output that is not blank
\* and the prompt of its task renders
GoodRun ==
    /\ unit.last.ran /\ ~unit.last.err
    /\ \E i \in 1..Len(unit.last.output) : ~IsSpace(unit.last.output[i])
    /\ unit.last.task.prompt = PromptOk

\* the data command of the last run failed or gave only whitespace
EmptyRun ==
    /\ unit.last.ran
    /\ unit.last.err \/ \A i \in 1..Len(unit.last.output) : IsSpace(unit.last.output[i])

C32_ErrorIsNeverSuccess ==
    (Ran("postPromptHandler") /\ unit.in.found /\ unit.in.decodes
        /\ unit.in.result.ret # {})
        => unit.out.status \notin 200..299

\* ------------------------------------------------------------------ C35
\* C35: the relay of a streaming turn never aborts on a Message event, also
\* one without continuation context or task: after taking it the relay
\* offers it to the sink, with its text accumulated, and the process lives.
C35_MessageNeverAborts ==
    \A t \in Turns :
        (tr[t].mode = "stream" /\ tr[t].ev.kind = KindMessage)
            => /\ tr[t].pc = "send"
               /\ ~crashed

\* ------------------------------------------------------------------ C31
\* C31: internalChan is closed at most once, and exactly once when
\* RunPromptStream has returned; eventChan is closed at most once and only
\* after RunPromptStream has returned; no send on either channel comes after
\* its close.
C31_ChannelsClosedOnce ==
    unit.fn = "handoff" =>
        /\ unit.ic <= 1
        /\ unit.ret => unit.ic = 1
        /\ unit.sink <= 1
        /\ ~unit.early
        /\ ~unit.sentClosed

\* ------------------------------------------------------------------ C34
\* C34: a streaming turn on the library's stream returns in the end from
\* RunPromptStream, its history appended and the save attempted, also when
\* the handler has stopped receiving after a write error.
C34_StreamTurnReturns ==
    (unit.fn = "handoff" /\ unit.client = "StreamMessage") ~> (unit.ret /\ unit.appended)

\* C33: a deleted conversation stays deleted: while the conversation is not
\* among those created and not deleted since, and no createSession of it is
\* under way, its file is absent and a listing that was the last operation
\* does not hold it, whatever a turn that acquired the record before the
\* delete does afterwards.
C33_DeletedStaysDeleted ==
    \A id \in Ids :
        (id \notin ans.live /\ ~(mgr.pc = "save" /\ mgr.id = id))
            => /\ ~disk[id].present
               /\ ans.op = "list" => \A i \in 1..Len(ans.list) : ans.list[i].id # id

\* C36: createSession checks nothing: whether or not the conversation is
\* cached or has a file, a createSession that returns has put a new instance
\* into the cache in place of the one that was there and has written a file
\* with the name "New Conversation" and an empty history; the cache holds
\* that instance until a delete, and an acquire returns the instance of the
\* cache with the history it has;
\* and a turn that ends writes the file from the instance it holds, the one
\* that createSession replaced included.
C36_CreateStep ==
    (mgr.pc = "save" /\ mgr'.pc = "idle")
        => LET id == mgr.id
               o  == Len(objs) + 1
           IN  /\ sessions'[id] = o
               /\ sessions'[id] # sessions[id]
               /\ objs'[o] = Session(id, NewConversationName, <<>>, mgr.wd, "", "")
               /\ disk'[id].present /\ ~disk'[id].bad
               /\ disk'[id].s = Encode(objs'[o])

C36_SaveStep ==
    \A t \in Turns :
        (tr[t].pc = "save" /\ tr'[t].pc # "save")
            => LET s == objs[tr[t].s]
               IN  /\ disk'[s.id].present
                   /\ disk'[s.id].s = Encode(s)
                   /\ disk'[s.id].by = t

C36_AcquireStep ==
    (ans'.op = "acquire" /\ UNCHANGED <<tr, mgr>> /\ sessions[ans'.id] # 0)
        => /\ ans'.ok
           /\ ans'.obj = sessions[ans'.id]
           /\ ans'.seen = objs[ans'.obj].hist
           /\ sessions' = sessions

C36_CacheHoldsCreated ==
    \A id \in Ids : ans.made[id] # 0 => sessions[id] = ans.made[id]

C36_CreateOverwrites ==
    /\ []C36_CacheHoldsCreated
    /\ [][C36_CreateStep /\ C36_SaveStep /\ C36_AcquireStep]_vars

\* A turn has ended on an instance that a second createSession replaced:
\* the cache holds the new, empty instance and the file the old history.
C36_Witness ==
    \E t \in Turns :
        /\ tr[t].pc = "done"
        /\ sessions["a"] # 0 /\ sessions["a"] # tr[t].s
        /\ sessions["a"] = ans.made["a"]
        /\ objs[sessions["a"]].hist = <<>>
        /\ disk["a"].by = t
        /\ disk["a"].s.hist # <<>>
        /\ disk["a"].s = Encode(objs[tr[t].s])
        /\ ans.op = "acquire" /\ ans.obj = sessions["a"] /\ ans.seen = <<>>

\* C37: a createSession whose save fails and an acquire whose load fails
\* (no file, or a file that does not decode) return the error and leave the
\* cache and the instances as they were: nothing is inserted or replaced.
C37_CreateFails ==
    (mgr.pc = "save" /\ mgr'.pc = "idle")
        => /\ ans'.ok => /\ disk'[mgr.id].present /\ ~disk'[mgr.id].bad
                         /\ disk'[mgr.id].by = 0
           /\ ~ans'.ok => sessions' = sessions /\ objs' = objs

C37_AcquireFails ==
    /\ (ans'.op = "acquire" /\ UNCHANGED <<tr, mgr>>
           /\ sessions[ans'.id] = 0
           /\ ~(disk[ans'.id].present /\ ~disk[ans'.id].bad))
          => /\ ~ans'.ok /\ ans'.obj = 0
             /\ sessions' = sessions /\ objs' = objs
    /\ \A t \in Turns :
          (tr[t].pc = "idle" /\ tr'[t].pc = "notfound")
              => sessions' = sessions /\ objs' = objs

C37_FailureLeavesCache == [][C37_CreateFails /\ C37_AcquireFails]_vars

\* A createSession of a cached conversation has failed with the file left
\* truncated: the cache still holds the instance it held.
C37_Witness ==
    /\ ans.op = "create" /\ ~ans.ok
    /\ sessions[ans.id] # 0
    /\ disk[ans.id].bad

\* C38: the cache holds at most one instance of a conversation and loads
\* it at most once: however the calls of AcquireSession, those made by
\* ListConversations included, fall in time, every call that returns an
\* instance of an id returns the same one, the one in the cache, and the
\* file of the id was loaded at most once.
C38_OneInstanceOneLoad ==
    unit.fn = "acquire" =>
        \A id \in Ids :
            /\ unit.loads[id] <= 1
            /\ Cardinality(unit.insts[id]) <= 1
            /\ unit.insts[id] # {} => unit.insts[id] = {unit.cache[id]}
            /\ \A p \in Procs :
                  (unit.pc[p] = "unlock" /\ unit.id[p] = id /\ unit.inst[p] # 0)
                      => unit.inst[p] = unit.cache[id]

\* An AcquireSession and a ListConversations met on an uncached id, one
\* waiting for the lock while the other loaded: both returned instance 1
\* of the one load.
C38_Witness ==
    /\ unit.fn = "acquire"
    /\ unit.met
    /\ unit.nret["a"] >= 2
    /\ unit.loads["a"] = 1
    /\ unit.insts["a"] = {unit.cache["a"]}
    /\ \A p \in Procs : unit.pc[p] = "idle"

====
